---- MODULE Spec2Model ----
(***************************************************************************)
(* Brainstem: memory repository, graph-augmented recall, job manager and   *)
(* canary model registry, modelled as state machines.                      *)
(*                                                                         *)
(*   Spec          the job manager (in-process queue and durable SQLite    *)
(*                 queue), any number of workers, worker crashes included  *)
(*   FairSpec      Spec with weak fairness on the steps of live workers    *)
(*   StoreSpec     the memory repository (in-memory and SQLite backends)   *)
(*                 with the graph-augmented recall on top of it            *)
(*   RegistrySpec  the model registry                                      *)
(*   ConcurrentSpec  remember calls of several callers, step by step       *)
(*   PairSpec      an in-process and a durable job manager driven by the   *)
(*                 same calls                                              *)
(*   ConflictSpec  recall over repositories of short texts that agree or   *)
(*                 disagree                                                *)
(*   TrainSpec     train jobs of a manager with a model registry, next to  *)
(*                 other callers of the registry                           *)
(*   ExpandSpec    the graph-augmented recall over drawn repositories and  *)
(*                 expansion limits                                        *)
(*   LoopSpec      an in-process job manager with its worker thread, step  *)
(*                 by step, and close                                      *)
(*   SharedSpec    two registry instances over one durable store           *)
(*   TokenSpec     estimate_tokens on texts of drawn lengths               *)
(*   ProjSpec      a graph store: projections of two tenants in any order, *)
(*                 related and query_candidates                            *)
(***************************************************************************)
EXTENDS Integers, Sequences, FiniteSets, TLC

None == "none"

\* ------------------------------------------------------------------------
\* Bounds of the model
\* ------------------------------------------------------------------------
NumWorkers == 2
MaxJobs == 2
MaxAttemptsBound == 2

Workers == 1..NumWorkers
NoWorker == 0
JobIds == 1..MaxJobs
Tenants == {"t1", "t2"}

VARIABLES
    mode,          \* "inprocess" | "sqlite": JobManager._sqlite_path is None or not
    default_max_attempts,  \* JobManager._default_max_attempts (the deployment's setting)
    jobs,          \* JobManager._jobs / table async_jobs: job_id -> JobRecord
    queue,         \* JobManager._queue (in-process FIFO of job ids)
    dead_letters,  \* JobManager._dead_letters (in-process)
    dbLock,        \* holder of the SQLite write lock (BEGIN IMMEDIATE), or NoWorker
    wpc,           \* per worker: position inside process_next
    clock,         \* datetime.now(UTC) as a logical time, read by created_at/finished_at
    wjob,          \* per worker: the JobRecord it holds (row snapshot / object ref)
    grants,        \* history: per job, the attempt numbers handed out by claims
    raised,        \* history: per job, how many executions raised
    crashed,       \* history: per job, how many holders died before recording
    pending        \* durable mode: JobRecords built by _enqueue and not yet INSERTed

jobVars == <<mode, default_max_attempts, jobs, queue, dead_letters, dbLock, clock, wpc, wjob, grants, raised, crashed, pending>>

VARIABLES
    backend,       \* "inmemory" (InMemoryRepository) | "sqlite" (SQLiteRepository)
    records,       \* _records / table memory_items, in insertion order; memory_id = index
    idempotency,   \* _idempotency / table idempotency_records: <<tenant, key>> -> response
    now,           \* datetime.now(UTC), in units of the graph half-life (168 hours)
    terms,         \* graph store _terms: <<tenant, relation, term>> -> set of memory ids
    edges,         \* graph store _edges: <<tenant, src, dst, relation>> -> [weight, updated_at]
    last,          \* the most recent call and what it returned
    keyHistory,    \* history: per <<tenant, key>>, the calls made with that key
    forgotten      \* history: per memory id, how often forget returned deleted=true

storeVars == <<backend, records, idempotency, now, terms, edges, last, keyHistory, forgotten>>

VARIABLES
    registry_states,   \* ModelRegistry._states: model kind -> ModelState
    registry_events,   \* the registry store's events, oldest first
    registry_signals,  \* the registry store's signals, oldest first
    selected           \* the select_version call that returned last, no other call since

registryVars == <<registry_states, registry_events, registry_signals, selected>>

VARIABLES
    sharing,       \* "threads": the callers share one repository object and its
                   \* RLock; "processes": each caller's process has its own
                   \* SQLiteRepository (lock and connection) on the same file
    callers,       \* per caller: position inside remember, payload, response
    repoLock       \* per repository object: the caller holding its RLock, or NoCaller

callerVars == <<sharing, callers, repoLock>>

VARIABLES
    pairMaxAttempts,  \* the two managers' default_max_attempts (the same setting)
    pairJobs,         \* per mode: the manager's jobs, in submission order
    pairQueue,        \* the in-process manager's queue
    pairClock,        \* datetime.now(UTC) as a logical time
    pairExecuted      \* per mode: the job the last process_next executed, or 0

pairVars == <<pairMaxAttempts, pairJobs, pairQueue, pairClock, pairExecuted>>

VARIABLES
    trainJobs,     \* the train jobs of a manager with a registry, in submission order
    trainHeld      \* the job the worker is executing, and the version it registered

trainVars == <<trainJobs, trainHeld>>

VARIABLES
    max_expansion  \* GraphAugmentedRepository._max_expansion

expandVars == <<max_expansion>>

VARIABLES
    loopJobs,      \* JobManager._jobs of an in-process manager with its worker thread
    loopQueue,     \* its _queue
    loopDead,      \* its _dead_letters
    stop_event,    \* its _stop_event
    loopAt,        \* where the worker thread is in run_forever
    loopJob        \* the job id the thread took from the queue

loopVars == <<loopJobs, loopQueue, loopDead, stop_event, loopAt, loopJob>>

VARIABLES
    persisted_states,  \* the state rows of a durable registry store, by model kind
    persisted_events,  \* its event rows, oldest first
    instance_states,   \* ModelRegistry._states of each instance opened on the store
    sharedCall         \* the call that returned last, no other call since

sharedVars == <<persisted_states, persisted_events, instance_states, sharedCall>>

VARIABLES
    word_counts,   \* the numbers of \w+ matches of two texts estimate_tokens is called with
    estimates      \* what estimate_tokens returned for them (none before the calls)

tokenVars == <<word_counts, estimates>>

VARIABLES
    projMemories,  \* the memories to project on a graph store: tenant and text, by id
    projected,     \* the ids project_memory was called with
    projCall       \* the related or query_candidates call that returned last

projVars == <<projMemories, projected, projCall>>

vars == <<jobVars, storeVars, registryVars, callerVars, pairVars, trainVars, expandVars, loopVars, sharedVars, tokenVars, projVars>>

\* ------------------------------------------------------------------------
\* Job manager (src/src/brainstem/jobs.py)
\* ------------------------------------------------------------------------

\* a NULL timestamp; real ones are 1, 2, ...
NoTime == 0

\* JobRecord as built by _enqueue: status queued, attempts 0, nothing else set.
NewJob(tenant, maxAttempts, at) ==
    [status |-> "queued", tenant_id |-> tenant, attempts |-> 0,
     max_attempts |-> maxAttempts, created_at |-> at, started |-> FALSE,
     finished_at |-> NoTime, result |-> None, error |-> None]

NoHeld == [job_id |-> 0, attempts |-> 0, max_attempts |-> 0]

\* ids are fresh (uuid4): the next unused one
NextJobId == Cardinality(DOMAIN jobs) + 1


JobInit ==
    /\ mode \in {"inprocess", "sqlite"}
    /\ default_max_attempts \in 1..MaxAttemptsBound
    /\ jobs = <<>>
    /\ queue = <<>>
    /\ dead_letters = <<>>
    /\ dbLock = NoWorker
    /\ clock = 1
    /\ wpc = [w \in Workers |-> "idle"]
    /\ wjob = [w \in Workers |-> NoHeld]
    /\ grants = <<>>
    /\ raised = <<>>
    /\ crashed = <<>>
    /\ pending = {}

\* submit_* -> _enqueue in in-process mode: the record goes into _jobs and its
\* id on the queue.
\* The public submit_* never pass max_attempts, so every job gets the default.
Submit(tenant) ==
    /\ mode = "inprocess"
    /\ NextJobId \in JobIds
    /\ jobs' = Append(jobs, NewJob(tenant, default_max_attempts, clock))
    /\ clock' = clock + 1
    /\ queue' = IF mode = "inprocess" THEN Append(queue, NextJobId) ELSE queue
    /\ grants' = Append(grants, <<>>)
    /\ raised' = Append(raised, 0)
    /\ crashed' = Append(crashed, 0)
    /\ UNCHANGED <<mode, default_max_attempts, pending, dead_letters, dbLock, wpc, wjob, storeVars, registryVars, callerVars, pairVars, trainVars, expandVars, loopVars, sharedVars, tokenVars, projVars>>

\* submit_* -> _enqueue in durable mode, first half: the JobRecord is built,
\* created_at = datetime.now(UTC); nothing is held while the submitter goes on
\* to the INSERT
SubmitBuild(tenant) ==
    /\ mode = "sqlite"
    /\ Cardinality(DOMAIN jobs) + Cardinality(pending) < MaxJobs
    /\ pending' = pending \cup {NewJob(tenant, default_max_attempts, clock)}
    /\ clock' = clock + 1
    /\ UNCHANGED <<mode, default_max_attempts, jobs, queue, dead_letters, dbLock, wpc, wjob,
                   grants, raised, crashed, storeVars, registryVars, callerVars, pairVars, trainVars, expandVars, loopVars, sharedVars, tokenVars, projVars>>

\* _insert_sqlite_job: the INSERT of the built record (a write: it waits for
\* the database write lock)
SubmitInsert(job) ==
    /\ mode = "sqlite"
    /\ job \in pending
    /\ dbLock = NoWorker
    /\ pending' = pending \ {job}
    /\ jobs' = Append(jobs, job)
    /\ grants' = Append(grants, <<>>)
    /\ raised' = Append(raised, 0)
    /\ crashed' = Append(crashed, 0)
    /\ UNCHANGED <<mode, default_max_attempts, clock, queue, dead_letters, dbLock, wpc, wjob,
                   storeVars, registryVars, callerVars, pairVars, trainVars, expandVars, loopVars, sharedVars, tokenVars, projVars>>

\* ---- in-process mode ----------------------------------------------------

\* What the except-branch of _execute_inmemory / _update_sqlite_job_failure
\* writes: back to queued while attempts < max_attempts, else failed.
\* (mutant) retry while attempts <= max_attempts
FailureRowOffByOne(row, attempts, maxAttempts, at) ==
    IF attempts <= maxAttempts
    THEN [row EXCEPT !.status = "queued", !.error = "exc", !.finished_at = NoTime]
    ELSE [row EXCEPT !.status = "failed", !.error = "exc", !.finished_at = at]

\* (mutant) never retry
FailureRowNoRetry(row, attempts, maxAttempts, at) ==
    [row EXCEPT !.status = "failed", !.error = "exc", !.finished_at = at]

FailureRow(row, attempts, maxAttempts, at) ==
    IF attempts < maxAttempts
    THEN [row EXCEPT !.status = "queued", !.error = "exc", !.finished_at = NoTime]
    ELSE [row EXCEPT !.status = "failed", !.error = "exc", !.finished_at = at]

\* (mutant) the success path leaves the error of an earlier attempt
SuccessRowKeepsError(row, at) ==
    [row EXCEPT !.status = "completed", !.finished_at = at, !.result = "ok"]

\* What the success path writes: completed, finished_at, result, error cleared.
SuccessRow(row, at) ==
    [row EXCEPT !.status = "completed", !.finished_at = at,
                !.result = "ok", !.error = None]

\* process_next, in-process: self._queue.get(timeout=0.0)
QueueGet(w) ==
    /\ mode = "inprocess"
    /\ wpc[w] = "idle"
    /\ queue # <<>>
    /\ wjob' = [wjob EXCEPT ![w] = [NoHeld EXCEPT !.job_id = Head(queue)]]
    /\ queue' = Tail(queue)
    /\ wpc' = [wpc EXCEPT ![w] = "got"]
    /\ UNCHANGED <<mode, default_max_attempts, pending, clock, jobs, dead_letters, dbLock, grants, raised, crashed, storeVars, registryVars, callerVars, pairVars, trainVars, expandVars, loopVars, sharedVars, tokenVars, projVars>>

\* (mutant) the first locked block forgets the status
StartRowKeepsStatus(row) ==
    [row EXCEPT !.started = TRUE, !.attempts = @ + 1]

\* What the first locked block of _execute_inmemory does to the record.
StartRow(row) ==
    [row EXCEPT !.status = "running", !.started = TRUE, !.attempts = @ + 1]

\* _execute_inmemory, first locked block: running, started_at, attempts += 1
ExecStart(w) ==
    /\ mode = "inprocess"
    /\ wpc[w] = "got"
    /\ LET j == wjob[w].job_id
           row == StartRow(jobs[j])
       IN /\ jobs' = [jobs EXCEPT ![j] = row]
          /\ wjob' = [wjob EXCEPT ![w] = [job_id |-> j, attempts |-> row.attempts,
                                          max_attempts |-> row.max_attempts]]
          /\ grants' = [grants EXCEPT ![j] = Append(@, row.attempts)]
    /\ wpc' = [wpc EXCEPT ![w] = "executing"]
    /\ UNCHANGED <<mode, default_max_attempts, pending, clock, queue, dead_letters, dbLock, raised, crashed, storeVars, registryVars, callerVars, pairVars, trainVars, expandVars, loopVars, sharedVars, tokenVars, projVars>>

\* _execute_inmemory, after _execute_job returned (ok) or raised (~ok); the
\* record is the shared object, so attempts is read live.
ExecFinish(w, ok) ==
    /\ mode = "inprocess"
    /\ wpc[w] = "executing"
    /\ LET j == wjob[w].job_id
           row == IF ok THEN SuccessRow(jobs[j], clock)
                  ELSE FailureRow(jobs[j], jobs[j].attempts, jobs[j].max_attempts, clock)
       IN /\ jobs' = [jobs EXCEPT ![j] = row]
          /\ queue' = IF row.status = "queued" THEN Append(queue, j) ELSE queue
          /\ dead_letters' = IF row.status = "failed"
                             THEN Append(dead_letters, j) ELSE dead_letters
          /\ raised' = [raised EXCEPT ![j] = IF ok THEN @ ELSE @ + 1]
          /\ clock' = IF row.finished_at # NoTime THEN clock + 1 ELSE clock
    /\ wpc' = [wpc EXCEPT ![w] = "idle"]
    /\ wjob' = [wjob EXCEPT ![w] = NoHeld]
    /\ UNCHANGED <<mode, default_max_attempts, pending, dbLock, grants, crashed, storeVars, registryVars, callerVars, pairVars, trainVars, expandVars, loopVars, sharedVars, tokenVars, projVars>>

\* ---- durable (SQLite) mode ----------------------------------------------

\* rows WHERE status = 'queued'
QueuedRows == {j \in DOMAIN jobs : jobs[j].status = "queued"}

\* SELECT ... WHERE status = 'queued' ORDER BY created_at LIMIT 1
SelectNextQueued ==
    CHOOSE j \in QueuedRows : \A k \in QueuedRows : jobs[j].created_at <= jobs[k].created_at

\* (mutant) the UPDATE forgets the status column
ClaimUpdateRowKeepsQueued(row) ==
    [row EXCEPT !.started = TRUE, !.attempts = @ + 1]

\* UPDATE ... SET status = 'running', started_at = ?, attempts = attempts + 1
ClaimUpdateRow(row) ==
    [row EXCEPT !.status = "running", !.started = TRUE, !.attempts = @ + 1]

\* ... WHERE job_id = ? AND status = 'queued': the rows the UPDATE touches
ClaimUpdateRowcount(j) ==
    IF j \in DOMAIN jobs /\ jobs[j].status = "queued" THEN 1 ELSE 0

\* _claim_next_sqlite_job: BEGIN IMMEDIATE takes the database write lock
ClaimBegin(w) ==
    /\ mode = "sqlite"
    /\ wpc[w] = "idle"
    /\ dbLock = NoWorker
    /\ dbLock' = w
    /\ wpc' = [wpc EXCEPT ![w] = "claim_select"]
    /\ UNCHANGED <<mode, default_max_attempts, pending, clock, jobs, queue, dead_letters, wjob, grants, raised, crashed, storeVars, registryVars, callerVars, pairVars, trainVars, expandVars, loopVars, sharedVars, tokenVars, projVars>>

\* _claim_next_sqlite_job: the SELECT; no row -> COMMIT and return None
ClaimSelect(w) ==
    /\ mode = "sqlite"
    /\ wpc[w] = "claim_select"
    /\ IF QueuedRows = {}
       THEN /\ dbLock' = NoWorker
            /\ wpc' = [wpc EXCEPT ![w] = "idle"]
            /\ wjob' = wjob
       ELSE /\ dbLock' = dbLock
            /\ wpc' = [wpc EXCEPT ![w] = "claim_update"]
            /\ wjob' = [wjob EXCEPT ![w] = [NoHeld EXCEPT !.job_id = SelectNextQueued]]
    /\ UNCHANGED <<mode, default_max_attempts, pending, clock, jobs, queue, dead_letters, grants, raised, crashed, storeVars, registryVars, callerVars, pairVars, trainVars, expandVars, loopVars, sharedVars, tokenVars, projVars>>

\* _claim_next_sqlite_job: the conditional UPDATE; rowcount != 1 -> ROLLBACK and
\* return None; else re-SELECT the row, COMMIT, return it as a JobRecord.
ClaimUpdate(w) ==
    /\ mode = "sqlite"
    /\ wpc[w] = "claim_update"
    /\ LET j == wjob[w].job_id
           row == ClaimUpdateRow(jobs[j])
       IN IF ClaimUpdateRowcount(j) # 1
          THEN /\ wpc' = [wpc EXCEPT ![w] = "idle"]
               /\ wjob' = [wjob EXCEPT ![w] = NoHeld]
               /\ UNCHANGED <<jobs, grants, storeVars, registryVars, callerVars, pairVars, trainVars, expandVars, loopVars, sharedVars, tokenVars, projVars>>
          ELSE /\ jobs' = [jobs EXCEPT ![j] = row]
               /\ wjob' = [wjob EXCEPT ![w] = [job_id |-> j, attempts |-> row.attempts,
                                               max_attempts |-> row.max_attempts]]
               /\ grants' = [grants EXCEPT ![j] = Append(@, row.attempts)]
               /\ wpc' = [wpc EXCEPT ![w] = "executing"]
    /\ dbLock' = NoWorker
    /\ UNCHANGED <<mode, default_max_attempts, pending, clock, queue, dead_letters, raised, crashed, storeVars, registryVars, callerVars, pairVars, trainVars, expandVars, loopVars, sharedVars, tokenVars, projVars>>

\* _execute_sqlite: _update_sqlite_job_success, or _update_sqlite_job_failure
\* deciding on the JobRecord returned by the claim (UPDATE ... WHERE job_id = ?)
SqliteFinish(w, ok) ==
    /\ mode = "sqlite"
    /\ wpc[w] = "executing"
    /\ dbLock = NoWorker
    /\ LET j == wjob[w].job_id
           row == IF ok THEN SuccessRow(jobs[j], clock)
                  ELSE FailureRow(jobs[j], wjob[w].attempts, wjob[w].max_attempts, clock)
       IN /\ jobs' = [jobs EXCEPT ![j] = row]
          /\ raised' = [raised EXCEPT ![j] = IF ok THEN @ ELSE @ + 1]
          /\ clock' = IF row.finished_at # NoTime THEN clock + 1 ELSE clock
    /\ wpc' = [wpc EXCEPT ![w] = "idle"]
    /\ wjob' = [wjob EXCEPT ![w] = NoHeld]
    /\ UNCHANGED <<mode, default_max_attempts, pending, queue, dead_letters, dbLock, grants, crashed, storeVars, registryVars, callerVars, pairVars, trainVars, expandVars, loopVars, sharedVars, tokenVars, projVars>>

\* A worker process dies while it holds a claimed job, before it recorded the
\* outcome; a fresh worker process takes its place. The row is left as it is.
Crash(w) ==
    /\ mode = "sqlite"
    /\ wpc[w] = "executing"
    /\ crashed' = [crashed EXCEPT ![wjob[w].job_id] = @ + 1]
    /\ wpc' = [wpc EXCEPT ![w] = "idle"]
    /\ wjob' = [wjob EXCEPT ![w] = NoHeld]
    /\ UNCHANGED <<mode, default_max_attempts, pending, clock, jobs, queue, dead_letters, dbLock, grants, raised, storeVars, registryVars, callerVars, pairVars, trainVars, expandVars, loopVars, sharedVars, tokenVars, projVars>>

\* ---- dead letters --------------------------------------------------------

\* list_dead_letters(limit=50)
DefaultDeadLetterLimit == 50

\* record.finished_at or record.created_at / COALESCE(finished_at, created_at)
DeadLetterKey(j) ==
    IF jobs[j].finished_at # NoTime THEN jobs[j].finished_at ELSE jobs[j].created_at

\* sort(key=..., reverse=True): highest key first, equal keys in their old order
RECURSIVE SortNewestFirst(_)
SortNewestFirst(ids) ==
    IF ids = <<>> THEN <<>>
    ELSE LET h == Head(ids)
             rest == SortNewestFirst(Tail(ids))
             newer(x) == DeadLetterKey(x) > DeadLetterKey(h)
             older(x) == ~newer(x)
         IN SelectSeq(rest, newer) \o <<h>> \o SelectSeq(rest, older)

\* records[:bounded] / LIMIT ?
Take(seq, n) == SubSeq(seq, 1, IF n < Len(seq) THEN n ELSE Len(seq))

\* (mutant) the rows are returned in the order they were found
ListDeadLettersUnsorted(tenant, limit) ==
    LET bounded == IF limit > 1 THEN limit ELSE 1
        ofTenant(j) == j \in DOMAIN jobs /\ jobs[j].tenant_id = tenant
        failedOfTenant(j) == jobs[j].tenant_id = tenant /\ jobs[j].status = "failed"
        rows == IF mode = "inprocess"
                   THEN SelectSeq(dead_letters, ofTenant)
                   ELSE SelectSeq([i \in 1..Len(jobs) |-> i], failedOfTenant)
    IN Take(rows, bounded)

\* list_dead_letters / _list_sqlite_dead_letters
ListDeadLetters(tenant, limit) ==
    LET bounded == IF limit > 1 THEN limit ELSE 1
        ofTenant(j) == j \in DOMAIN jobs /\ jobs[j].tenant_id = tenant
        failedOfTenant(j) == jobs[j].tenant_id = tenant /\ jobs[j].status = "failed"
        rows == IF mode = "inprocess"
                   THEN SelectSeq(dead_letters, ofTenant)
                   ELSE SelectSeq([i \in 1..Len(jobs) |-> i], failedOfTenant)
    IN Take(SortNewestFirst(rows), bounded)

Range(seq) == {seq[i] : i \in DOMAIN seq}

WorkerStep(w) ==
    \/ QueueGet(w)
    \/ ExecStart(w)
    \/ \E ok \in BOOLEAN : ExecFinish(w, ok)
    \/ ClaimBegin(w)
    \/ ClaimSelect(w)
    \/ ClaimUpdate(w)
    \/ \E ok \in BOOLEAN : SqliteFinish(w, ok)

JobNext ==
    \/ \E t \in Tenants : Submit(t)
    \/ \E t \in Tenants : SubmitBuild(t)
    \/ \E job \in pending : SubmitInsert(job)
    \/ \E w \in Workers : WorkerStep(w)
    \/ \E w \in Workers : Crash(w)

\* ------------------------------------------------------------------------
\* The two queue modes side by side: one in-process JobManager and one
\* durable JobManager driven by the same calls, one call at a time
\* ------------------------------------------------------------------------
PairJobs == 3

QueueModes == {"inprocess", "sqlite"}

\* what one execution writes to the record it started
OutcomeRow(row, ok, at) ==
    IF ok THEN SuccessRow(row, at)
    ELSE FailureRow(row, row.attempts, row.max_attempts, at)

\* SELECT ... WHERE status = 'queued' ORDER BY created_at LIMIT 1, on a table
EarliestQueued(rows) ==
    LET queued == {j \in DOMAIN rows : rows[j].status = "queued"}
    IN IF queued = {} THEN 0
       ELSE CHOOSE j \in queued : \A k \in queued : rows[j].created_at <= rows[k].created_at

\* process_next in in-process mode, as one call: (jobs, queue, executed job)
InprocessProcessNext(rows, q, ok, at) ==
    IF q = <<>> THEN [jobs |-> rows, queue |-> q, executed |-> 0]
    ELSE LET j == Head(q)
             row == OutcomeRow(StartRow(rows[j]), ok, at)
         IN [jobs |-> [rows EXCEPT ![j] = row],
             queue |-> IF row.status = "queued" THEN Append(Tail(q), j) ELSE Tail(q),
             executed |-> j]

\* process_next in durable mode, as one call: (jobs, executed job)
SqliteProcessNext(rows, ok, at) ==
    LET j == EarliestQueued(rows)
    IN IF j = 0 THEN [jobs |-> rows, executed |-> 0]
       ELSE [jobs |-> [rows EXCEPT ![j] = OutcomeRow(ClaimUpdateRow(rows[j]), ok, at)],
             executed |-> j]

PairStart ==
    /\ pairJobs = [m \in QueueModes |-> <<>>]
    /\ pairQueue = <<>>
    /\ pairClock = 1
    /\ pairExecuted = [m \in QueueModes |-> 0]

PairInit == PairStart /\ pairMaxAttempts \in 1..MaxAttemptsBound

\* the same submit_* call on both managers
PairSubmit(tenant) ==
    /\ Len(pairJobs["inprocess"]) < PairJobs
    /\ pairJobs' = [m \in QueueModes |->
                       Append(pairJobs[m], NewJob(tenant, pairMaxAttempts, pairClock))]
    /\ pairQueue' = Append(pairQueue, Len(pairJobs["inprocess"]) + 1)
    /\ pairClock' = pairClock + 1
    /\ pairExecuted' = [m \in QueueModes |-> 0]
    /\ UNCHANGED <<pairMaxAttempts, jobVars, storeVars, registryVars, callerVars, trainVars, expandVars, loopVars, sharedVars, tokenVars, projVars>>

\* process_next on both managers; the execution it starts returns (ok) or
\* raises (~ok) on both
PairProcessNext(ok) ==
    LET a == InprocessProcessNext(pairJobs["inprocess"], pairQueue, ok, pairClock)
        b == SqliteProcessNext(pairJobs["sqlite"], ok, pairClock)
    IN /\ a.executed # 0 \/ b.executed # 0
       /\ pairJobs' = [m \in QueueModes |-> IF m = "inprocess" THEN a.jobs ELSE b.jobs]
       /\ pairQueue' = a.queue
       /\ pairClock' = pairClock + 1
       /\ pairExecuted' = [m \in QueueModes |->
                               IF m = "inprocess" THEN a.executed ELSE b.executed]
       /\ UNCHANGED <<pairMaxAttempts, jobVars, storeVars, registryVars, callerVars, trainVars, expandVars, loopVars, sharedVars, tokenVars, projVars>>

PairNext ==
    \/ \E t \in Tenants : PairSubmit(t)
    \/ \E ok \in BOOLEAN : PairProcessNext(ok)

\* ------------------------------------------------------------------------
\* The memory repository (store.py) behind the API handlers (api.py), with
\* the graph projection and the graph-augmented recall (graph.py)
\* ------------------------------------------------------------------------
MaxRecords == 2
MaxTime == 2
MaxCalls == 3

Agents == {"a1", "a2"}
Scopes == {"private", "team", "global"}
MemoryIds == 1..MaxRecords

\* Texts of the model and the requests' query. The operators below give, for
\* each, what the code's regular expressions compute from it.
\*   TextMedium   "deadline" followed by 39 times "to"
\*   TextLong     "release deadline" followed by 48 times "to"
\*   QueryRelease "release"
TextMedium == "deadline to(x39)"
TextLong == "release deadline to(x48)"
QueryRelease == "release"

\* Short texts that agree or disagree with each other
TextCan == "The release can proceed."
TextCannot == "The release cannot proceed."
TextCanNot == "The release can not proceed without integration tests"
TextCanNotBang == "The release can proceed, not!"
TextDeploys == "Deploys never happen"
TextMarks == "?!"

\* len(re.findall(r"\w+", text))
Words(text) ==
    CASE text = TextMedium -> 40
      [] text = TextLong -> 50
      [] text = TextCan -> 4
      [] text = TextCannot -> 4
      [] text = TextCanNot -> 8
      [] text = TextCanNotBang -> 5
      [] text = TextDeploys -> 3
      [] text = TextMarks -> 0
      [] OTHER -> 1

\* len(text.split())
Chunks(text) ==
    CASE text = TextMedium -> 40
      [] text = TextLong -> 50
      [] text = TextCan -> 4
      [] text = TextCannot -> 4
      [] text = TextCanNot -> 8
      [] text = TextCanNotBang -> 5
      [] text = TextDeploys -> 3
      [] OTHER -> 1

\* set(re.findall(r"\w+", text.lower()))
TokenSet(text) ==
    CASE text = TextMedium -> {"deadline", "to"}
      [] text = TextLong -> {"release", "deadline", "to"}
      [] text = TextCan -> {"the", "release", "can", "proceed"}
      [] text = TextCannot -> {"the", "release", "cannot", "proceed"}
      [] text = TextCanNot -> {"the", "release", "can", "not", "proceed", "without",
                               "integration", "tests"}
      [] text = TextCanNotBang -> {"the", "release", "can", "proceed", "not"}
      [] text = TextDeploys -> {"deploys", "never", "happen"}
      [] text = TextMarks -> {}
      [] OTHER -> {"release"}

\* set(text.lower().split(" ")): the lowered text cut at its spaces
LoweredChunks(text) ==
    CASE text = TextMedium -> {"deadline", "to"}
      [] text = TextLong -> {"release", "deadline", "to"}
      [] text = TextCan -> {"the", "release", "can", "proceed."}
      [] text = TextCannot -> {"the", "release", "cannot", "proceed."}
      [] text = TextCanNot -> {"the", "release", "can", "not", "proceed", "without",
                               "integration", "tests"}
      [] text = TextCanNotBang -> {"the", "release", "can", "proceed,", "not!"}
      [] text = TextDeploys -> {"deploys", "never", "happen"}
      [] text = TextMarks -> {"?!"}
      [] OTHER -> {"release"}

\* negation_markers, without the space on either side
negation_markers == {"not", "no", "never", "cannot", "can't", "without"}

\* _has_negation(text): a marker, with its two spaces, occurs in the lowered
\* text put between two spaces
has_negation(text) == LoweredChunks(text) \cap negation_markers # {}

\* sum(token in lowered for token in _HIGH_IMPORTANCE_TOKENS): "deadline"
HighImportanceHits(text) ==
    CASE text = TextMedium -> 1
      [] text = TextLong -> 1
      [] text = TextCannot -> 1
      [] OTHER -> 0

\* sum(token in lowered for token in _LOW_CONFIDENCE_TOKENS)
LowConfidenceHits(text) == 0

\* extract_relation_features: <<relation, term>> pairs; "to" is a stopword
extract_relation_features(text) ==
    CASE text = TextMedium -> {<<"keyword", "deadline">>}
      [] text = TextLong -> {<<"keyword", "release">>, <<"keyword", "deadline">>,
                             <<"phrase", "release_deadline">>}
      [] text = TextCan -> {<<"keyword", "release">>, <<"keyword", "can">>,
                            <<"keyword", "proceed">>, <<"phrase", "release_can">>,
                            <<"phrase", "can_proceed">>}
      [] text = TextCannot -> {<<"keyword", "release">>, <<"keyword", "cannot">>,
                               <<"keyword", "proceed">>, <<"phrase", "release_cannot">>,
                               <<"phrase", "cannot_proceed">>}
      [] text = TextCanNot -> {<<"keyword", "release">>, <<"keyword", "can">>,
                               <<"keyword", "not">>, <<"keyword", "proceed">>,
                               <<"keyword", "without">>, <<"keyword", "integration">>,
                               <<"keyword", "tests">>, <<"phrase", "release_can">>,
                               <<"phrase", "can_not">>, <<"phrase", "not_proceed">>,
                               <<"phrase", "proceed_without">>,
                               <<"phrase", "without_integration">>,
                               <<"phrase", "integration_tests">>}
      [] text = TextCanNotBang -> {<<"keyword", "release">>, <<"keyword", "can">>,
                                   <<"keyword", "proceed">>, <<"keyword", "not">>,
                                   <<"phrase", "release_can">>, <<"phrase", "can_proceed">>,
                                   <<"phrase", "proceed_not">>}
      [] text = TextDeploys -> {<<"keyword", "deploys">>, <<"keyword", "never">>,
                                <<"keyword", "happen">>, <<"phrase", "deploys_never">>,
                                <<"phrase", "never_happen">>}
      [] text = TextMarks -> {}
      [] OTHER -> {<<"keyword", "release">>}

Max(a, b) == IF a > b THEN a ELSE b
Min(a, b) == IF a < b THEN a ELSE b

\* clamp(value, low, high)
clamp(value, low, high) == Max(low, Min(high, value))

\* the last line of estimate_tokens on words, the number of \w+ matches:
\* int(words * 1.3) truncates the product
tokens_of_words(word_count) == Max(1, (word_count * 13) \div 10)

\* estimate_tokens: max(1, int(words * 1.3))
estimate_tokens(text) == tokens_of_words(Words(text))

\* infer_salience, in hundredths (no salience provided)
infer_salience(text, memory_type) ==
    LET base == CASE memory_type = "event" -> 45
                  [] memory_type = "fact" -> 70
                  [] memory_type = "episode" -> 60
                  [] memory_type = "policy" -> 90
    IN clamp(base + 3 * HighImportanceHits(text), 5, 99)

\* infer_confidence, in hundredths (no confidence provided)
infer_confidence(text, trust_level) ==
    LET base == CASE trust_level = "trusted_tool" -> 82
                  [] trust_level = "user_claim" -> 66
                  [] trust_level = "untrusted_web" -> 38
    IN clamp(base - 5 * LowConfidenceHits(text), 5, 98)

\* trust_score, in hundredths
trust_score(trust_level) ==
    CASE trust_level = "trusted_tool" -> 100
      [] trust_level = "user_claim" -> 70
      [] trust_level = "untrusted_web" -> 35

\* RecallBudget defaults
DefaultMaxItems == 12
DefaultMaxTokens == 1400
\* RecallBudget.max_tokens: ge=64
MinMaxTokens == 64

\* One unit of model time is the graph half-life, 168 hours.
HalfLifeHours == 168

\* _recall_score, in millionths: 0.45 overlap + 0.25 salience + 0.20 confidence
\* + 0.07 trust + 0.03 / (1 + age in hours), the age being at least one second
recall_score(query, record, at) ==
    LET query_tokens == TokenSet(query)
        text_tokens == TokenSet(record.text)
        age == at - record.created_at
        recency == IF age <= 0 THEN (30000 * 3600) \div 3601
                   ELSE 30000 \div (1 + HalfLifeHours * age)
    IN IF query_tokens = {} THEN 0
       ELSE (450000 * Cardinality(query_tokens \cap text_tokens))
                \div Cardinality(query_tokens)
            + 2500 * record.salience
            + 2000 * record.confidence
            + 700 * trust_score(record.trust_level)
            + recency

\* (mutant) a private record is readable by every agent of the tenant
can_read_any_agent(agent_id, requested_scope, record, at) ==
    IF record.tombstoned THEN FALSE
    ELSE IF record.expires_at # NoTime /\ at >= record.expires_at THEN FALSE
    ELSE IF record.scope = "global" THEN TRUE
    ELSE IF record.scope = "team" /\ requested_scope \in {"team", "global"} THEN TRUE
    ELSE record.scope = "private"

\* (mutant) a team record is readable whatever scope the request names
can_read_team_any_scope(agent_id, requested_scope, record, at) ==
    IF record.tombstoned THEN FALSE
    ELSE IF record.expires_at # NoTime /\ at >= record.expires_at THEN FALSE
    ELSE IF record.scope = "global" THEN TRUE
    ELSE IF record.scope = "team" THEN TRUE
    ELSE record.scope = "private" /\ record.agent_id = agent_id

\* _can_read(agent_id, requested_scope, record), evaluated at time `at`
can_read(agent_id, requested_scope, record, at) ==
    IF record.tombstoned THEN FALSE
    ELSE IF record.expires_at # NoTime /\ at >= record.expires_at THEN FALSE
    ELSE IF record.scope = "global" THEN TRUE
    ELSE IF record.scope = "team" /\ requested_scope \in {"team", "global"} THEN TRUE
    ELSE IF record.scope = "private" /\ record.agent_id = agent_id THEN TRUE
    ELSE FALSE

\* (mutant) a tombstoned record can be deleted again
can_delete_tombstoned(agent_id, record) ==
    IF record.scope = "private" /\ record.agent_id # agent_id THEN FALSE
    ELSE TRUE

\* _can_delete(agent_id, record)
can_delete(agent_id, record) ==
    IF record.tombstoned THEN FALSE
    ELSE IF record.scope = "private" /\ record.agent_id # agent_id THEN FALSE
    ELSE TRUE

\* sorted(..., key=score, reverse=True): highest score first, equal scores in
\* their old order
RECURSIVE SortByScore(_, _)
SortByScore(ids, score) ==
    IF ids = <<>> THEN <<>>
    ELSE LET h == Head(ids)
             rest == SortByScore(Tail(ids), score)
             higher(x) == score[x] > score[h]
             notHigher(x) == ~higher(x)
         IN SelectSeq(rest, higher) \o <<h>> \o SelectSeq(rest, notHigher)

\* the loop of _pack_recall over the scored candidates from position i on
RECURSIVE PackLoop(_, _, _, _, _, _)
RECURSIVE ConflictsOf(_, _, _, _)
RECURSIVE DetectLoop(_, _, _)
PackLoop(scored, i, snippets, tokens, max_items, max_tokens) ==
    IF i > Len(scored) THEN [items |-> snippets, composed_tokens_estimate |-> tokens]
    ELSE IF Len(snippets) >= max_items
         THEN [items |-> snippets, composed_tokens_estimate |-> tokens]
    ELSE LET item_tokens == estimate_tokens(records[scored[i]].text)
         IN IF tokens + item_tokens > max_tokens
            THEN PackLoop(scored, i + 1, snippets, tokens, max_items, max_tokens)
            ELSE PackLoop(scored, i + 1, Append(snippets, scored[i]),
                          tokens + item_tokens, max_items, max_tokens)

\* (mutant) the token budget is not enforced
pack_recall_any_tokens(payload, candidates) ==
    LET score == [id \in Range(candidates) |->
                      recall_score(payload.query, records[id], now)]
        scored == SortByScore(candidates, score)
    IN PackLoop(scored, 1, <<>>, 0, payload.max_items,
                payload.max_tokens + DefaultMaxTokens)

\* _pack_recall(payload, candidates); items are memory ids
pack_recall(payload, candidates) ==
    LET score == [id \in Range(candidates) |->
                      recall_score(payload.query, records[id], now)]
        scored == SortByScore(candidates, score)
    IN PackLoop(scored, 1, <<>>, 0, payload.max_items, payload.max_tokens)

\* the inner loop of _detect_conflicts: left against fact_records[j..]
ConflictsOf(left, fact_records, j, conflicts) ==
    IF j > Len(fact_records) THEN conflicts
    ELSE LET right == fact_records[j]
             left_tokens == TokenSet(records[left].text)
             right_tokens == TokenSet(records[right].text)
         IN IF left_tokens = {} \/ right_tokens = {}
            THEN ConflictsOf(left, fact_records, j + 1, conflicts)
            ELSE IF 2 * Cardinality(left_tokens \cap right_tokens)
                        < Cardinality(left_tokens \cup right_tokens)
            THEN ConflictsOf(left, fact_records, j + 1, conflicts)
            ELSE IF has_negation(records[left].text) = has_negation(records[right].text)
            THEN ConflictsOf(left, fact_records, j + 1, conflicts)
            ELSE ConflictsOf(left, fact_records, j + 1,
                             Append(conflicts, <<left, right>>))

\* the outer loop of _detect_conflicts from position i on
DetectLoop(fact_records, i, conflicts) ==
    IF i > Len(fact_records) THEN conflicts
    ELSE DetectLoop(fact_records, i + 1,
                    ConflictsOf(fact_records[i], fact_records, i + 1, conflicts))

IsFact(id) == records[id].type = "fact"

\* (mutant) the selected records of every type are compared
detect_conflicts_all_types(selected_records) == DetectLoop(selected_records, 1, <<>>)

\* _detect_conflicts(selected): the entry possible_conflict:<a>:<b> is <<a, b>>
detect_conflicts(selected_records) == DetectLoop(SelectSeq(selected_records, IsFact), 1, <<>>)

AllIds == [i \in 1..Len(records) |-> i]

\* filters.types is None (a types filter is a set of type names otherwise)
NoTypes == {None}

\* InMemoryRepository.recall: the candidates
InMemoryCandidates(payload) ==
    LET allowed(record) == payload.types = NoTypes \/ record.type \in payload.types
        keep(id) == /\ records[id].tenant_id = payload.tenant_id
                    /\ can_read(payload.agent_id, payload.scope, records[id], now)
                    /\ trust_score(records[id].trust_level) >= payload.trust_min
                    /\ allowed(records[id])
    IN SelectSeq(AllIds, keep)

\* SQLiteRepository.recall: the rows of the query, then the filter loop
SqliteCandidates(payload) ==
    LET typed == payload.types # NoTypes /\ payload.types # {}
        row(id) == /\ records[id].tenant_id = payload.tenant_id
                   /\ ~records[id].tombstoned
                   /\ (typed => records[id].type \in payload.types)
        keep(id) == /\ can_read(payload.agent_id, payload.scope, records[id], now)
                    /\ ~(trust_score(records[id].trust_level) < payload.trust_min)
    IN SelectSeq(SelectSeq(AllIds, row), keep)

\* MemoryRepository.recall
RepositoryRecall(payload) ==
    pack_recall(payload, IF backend = "inmemory" THEN InMemoryCandidates(payload)
                         ELSE SqliteCandidates(payload))

\* inspect returned None (memory ids are 1, 2, ...)
NotFound == 0

\* inspect of the repository class b on the stored records: the memory id
\* whose details are returned, or NotFound
InspectOn(b, tenant_id, agent_id, scope, memory_id) ==
    IF memory_id \notin DOMAIN records THEN NotFound
    ELSE IF records[memory_id].tenant_id # tenant_id THEN NotFound
    ELSE IF b = "sqlite" /\ records[memory_id].tombstoned THEN NotFound
    ELSE IF ~can_read(agent_id, scope, records[memory_id], now) THEN NotFound
    ELSE memory_id

\* MemoryRepository.inspect
RepositoryInspect(tenant_id, agent_id, scope, memory_id) ==
    InspectOn(backend, tenant_id, agent_id, scope, memory_id)

\* forget of the repository class b: whether the record gets tombstoned
ForgetDeletesOn(b, tenant_id, agent_id, memory_id) ==
    IF memory_id \notin DOMAIN records THEN FALSE
    ELSE IF records[memory_id].tenant_id # tenant_id THEN FALSE
    ELSE IF b = "sqlite" /\ records[memory_id].tombstoned THEN FALSE
    ELSE can_delete(agent_id, records[memory_id])

\* MemoryRepository.forget
ForgetDeletes(tenant_id, agent_id, memory_id) ==
    ForgetDeletesOn(backend, tenant_id, agent_id, memory_id)

\* ---- graph store (InMemoryGraphStore) -----------------------------------

\* GraphAugmentedRepository(max_expansion=4): the default
MaxExpansion == 4

\* DEFAULT_RELATION_WEIGHTS, in tenths
RelationWeight(relation) ==
    CASE relation = "keyword" -> 10
      [] relation = "phrase" -> 14
      [] relation = "temporal" -> 12
      [] relation = "reference" -> 16

RECURSIVE Pow2(_)
Pow2(n) == IF n <= 0 THEN 1 ELSE 2 * Pow2(n - 1)

\* _decay_multiplier, times 2^MaxTime: 0.5 ** (age / half_life)
DecayMultiplier(updated_at, at) == Pow2(MaxTime - Max(0, at - updated_at))

\* (mutant) only the edge from the projected memory to its peer is upserted
project_memory_one_way(g, tenant_id, memory_id, text, at) ==
    LET features == extract_relation_features(text)
        existingIds == {t[4] : t \in {u \in g.terms : u[1] = tenant_id}} \ {memory_id}
        shared(existing, relation) ==
            Cardinality({f \in features : /\ f[1] = relation
                                          /\ <<tenant_id, relation, f[2], existing>> \in g.terms})
        relationsOf == {f[1] : f \in features}
        related_by == {<<e, r>> \in existingIds \X relationsOf : shared(e, r) > 0}
        forward == {<<tenant_id, memory_id, p[1], p[2]>> : p \in related_by}
        backward == {}
        other(k) == IF k[2] = memory_id THEN k[3] ELSE k[2]
        upsert(k) ==
            [weight |-> (IF k \in DOMAIN g.edges THEN g.edges[k].weight ELSE 0)
                        + shared(other(k), k[4]),
             updated_at |-> at]
    IN IF features = {} THEN g
       ELSE [terms |-> g.terms \cup {<<tenant_id, f[1], f[2], memory_id>> : f \in features},
             edges |-> [k \in DOMAIN g.edges \cup forward \cup backward |->
                           IF k \in forward \cup backward THEN upsert(k) ELSE g.edges[k]]]

\* (mutant) an edge gets weight 1 per relation, however many terms are shared
project_memory_unit_weight(g, tenant_id, memory_id, text, at) ==
    LET features == extract_relation_features(text)
        existingIds == {t[4] : t \in {u \in g.terms : u[1] = tenant_id}} \ {memory_id}
        shared(existing, relation) ==
            Cardinality({f \in features : /\ f[1] = relation
                                          /\ <<tenant_id, relation, f[2], existing>> \in g.terms})
        relationsOf == {f[1] : f \in features}
        related_by == {<<e, r>> \in existingIds \X relationsOf : shared(e, r) > 0}
        forward == {<<tenant_id, memory_id, p[1], p[2]>> : p \in related_by}
        backward == {<<tenant_id, p[1], memory_id, p[2]>> : p \in related_by}
        upsert(k) ==
            [weight |-> (IF k \in DOMAIN g.edges THEN g.edges[k].weight ELSE 0) + 1,
             updated_at |-> at]
    IN IF features = {} THEN g
       ELSE [terms |-> g.terms \cup {<<tenant_id, f[1], f[2], memory_id>> : f \in features},
             edges |-> [k \in DOMAIN g.edges \cup forward \cup backward |->
                           IF k \in forward \cup backward THEN upsert(k) ELSE g.edges[k]]]

\* project_memory(tenant_id, memory_id, text) on the graph g = [terms, edges]
project_memory(g, tenant_id, memory_id, text, at) ==
    LET features == extract_relation_features(text)
        existingIds == {t[4] : t \in {u \in g.terms : u[1] = tenant_id}} \ {memory_id}
        shared(existing, relation) ==
            Cardinality({f \in features : /\ f[1] = relation
                                          /\ <<tenant_id, relation, f[2], existing>> \in g.terms})
        relationsOf == {f[1] : f \in features}
        related_by == {<<e, r>> \in existingIds \X relationsOf : shared(e, r) > 0}
        forward == {<<tenant_id, memory_id, p[1], p[2]>> : p \in related_by}
        backward == {<<tenant_id, p[1], memory_id, p[2]>> : p \in related_by}
        other(k) == IF k[2] = memory_id THEN k[3] ELSE k[2]
        upsert(k) ==
            [weight |-> (IF k \in DOMAIN g.edges THEN g.edges[k].weight ELSE 0)
                        + shared(other(k), k[4]),
             updated_at |-> at]
    IN IF features = {} THEN g
       ELSE [terms |-> g.terms \cup {<<tenant_id, f[1], f[2], memory_id>> : f \in features},
             edges |-> [k \in DOMAIN g.edges \cup forward \cup backward |->
                           IF k \in forward \cup backward THEN upsert(k) ELSE g.edges[k]]]

\* the handler's loop over zip(response.memory_ids, payload.items)
RECURSIVE ProjectAll(_, _, _, _, _)
ProjectAll(g, tenant_id, memory_ids, items, at) ==
    IF memory_ids = <<>> \/ items = <<>> THEN g
    ELSE ProjectAll(project_memory(g, tenant_id, Head(memory_ids), Head(items).text, at),
                    tenant_id, Tail(memory_ids), Tail(items), at)

\* sorted(scores.items(), reverse=True)[:limit]: every order of the scored ids
\* that is descending in score (the order of equal scores follows the
\* iteration order of sets and dicts, which the code does not fix)
Rankings(scores, limit) ==
    LET ids == DOMAIN scores
        n == Cardinality(ids)
        orders == {f \in [1..n -> ids] :
                      /\ \A i, j \in 1..n : i < j => f[i] # f[j] /\ scores[f[i]] >= scores[f[j]]}
    IN {Take(f, limit) : f \in orders}

\* query_candidates: the scores
QueryCandidateScores(tenant_id, text, exclude_ids) ==
    LET features == extract_relation_features(text)
        hit(id) == {f \in features : <<tenant_id, f[1], f[2], id>> \in terms}
        ids == {t[4] : t \in {u \in terms : u[1] = tenant_id /\ <<u[2], u[3]>> \in features}}
                   \ exclude_ids
        RECURSIVE Sum(_)
        Sum(fs) == IF fs = {} THEN 0
                   ELSE LET f == CHOOSE x \in fs : TRUE
                        IN RelationWeight(f[1]) + Sum(fs \ {f})
    IN [id \in ids |-> Sum(hit(id))]

\* (mutant) the excluded ids are scored like the others
query_candidates_keeps_excluded(tenant_id, text, exclude_ids, limit) ==
    IF limit <= 0 THEN {<<>>}
    ELSE Rankings(QueryCandidateScores(tenant_id, text, {}), limit)

\* query_candidates(tenant_id, text, exclude_ids, limit): the possible results
query_candidates(tenant_id, text, exclude_ids, limit) ==
    IF limit <= 0 THEN {<<>>}
    ELSE Rankings(QueryCandidateScores(tenant_id, text, exclude_ids), limit)

\* related: the scores
RelatedScores(tenant_id, memory_ids, exclude_ids) ==
    LET from == {k \in DOMAIN edges : /\ k[1] = tenant_id
                                      /\ k[2] \in Range(memory_ids)
                                      /\ k[3] \notin exclude_ids}
        RECURSIVE Sum(_)
        Sum(ks) == IF ks = {} THEN 0
                   ELSE LET k == CHOOSE x \in ks : TRUE
                        IN edges[k].weight * RelationWeight(k[4])
                               * DecayMultiplier(edges[k].updated_at, now)
                           + Sum(ks \ {k})
    IN [id \in {k[3] : k \in from} |-> Sum({k \in from : k[3] = id})]

\* related(tenant_id, memory_ids, exclude_ids, limit): the possible results
related(tenant_id, memory_ids, exclude_ids, limit) ==
    Rankings(RelatedScores(tenant_id, memory_ids, exclude_ids), limit)

\* ---- graph-augmented recall (GraphAugmentedRepository.recall) -----------

\* the three loops that merge related_ids and query_seed_candidates
RECURSIVE AppendNew(_, _, _)
AppendNew(candidate_ids, more, skip) ==
    IF more = <<>> THEN candidate_ids
    ELSE IF Head(more) \in skip \/ Head(more) \in Range(candidate_ids)
         THEN AppendNew(candidate_ids, Tail(more), skip)
         ELSE AppendNew(Append(candidate_ids, Head(more)), Tail(more), skip)

\* the loop that materialises the candidates through inspect
RECURSIVE ExpandLoop(_, _, _, _, _)
ExpandLoop(payload, candidate_ids, i, expanded_items, composed_tokens) ==
    IF i > Len(candidate_ids) \/ Len(expanded_items) >= payload.max_items
    THEN [items |-> expanded_items, composed_tokens_estimate |-> composed_tokens]
    ELSE LET details == RepositoryInspect(payload.tenant_id, payload.agent_id,
                                          payload.scope, candidate_ids[i])
             estimated_tokens == IF details = NotFound THEN 0
                                 ELSE Max(1, Chunks(records[details].text))
         IN IF details = NotFound \/ composed_tokens + estimated_tokens > payload.max_tokens
            THEN ExpandLoop(payload, candidate_ids, i + 1, expanded_items, composed_tokens)
            ELSE ExpandLoop(payload, candidate_ids, i + 1, Append(expanded_items, details),
                            composed_tokens + estimated_tokens)

\* the base recall of the augmented recall
GraphBaseResponse(payload) ==
    LET expansion_budget == Min(max_expansion, Max(0, payload.max_items \div 2))
        base_max_items == IF expansion_budget > 0 /\ payload.max_items > 1
                          THEN Max(1, payload.max_items - expansion_budget)
                          ELSE payload.max_items
    IN RepositoryRecall([payload EXCEPT !.max_items = base_max_items])

GraphRemainingSlots(payload) ==
    LET expansion_budget == Min(max_expansion, Max(0, payload.max_items \div 2))
    IN Min(expansion_budget,
           Max(0, payload.max_items - Len(GraphBaseResponse(payload).items)))

GraphLimit(payload) ==
    Max(Max(GraphRemainingSlots(payload) * 2, max_expansion * 2), 4)

\* the possible results of the query_candidates call
GraphQuerySeeds(payload) ==
    query_candidates(payload.tenant_id, payload.query,
                     Range(GraphBaseResponse(payload).items), GraphLimit(payload))

\* the possible results of the related call, given the query seeds
GraphRelated(payload, query_seed_candidates) ==
    LET response == GraphBaseResponse(payload)
        seed_ids == AppendNew(response.items, query_seed_candidates, {})
    IN related(payload.tenant_id, seed_ids, Range(response.items), GraphLimit(payload))

\* GraphAugmentedRepository.recall, given what the graph store returned
GraphRecallResponse(payload, query_seed_candidates, related_ids) ==
    LET response == GraphBaseResponse(payload)
        exclude_ids == Range(response.items)
        first == AppendNew(<<>>, related_ids, exclude_ids \cup Range(query_seed_candidates))
        second == AppendNew(first, related_ids, exclude_ids)
        candidate_ids == AppendNew(second, query_seed_candidates, exclude_ids)
    IN IF GraphRemainingSlots(payload) <= 0 THEN response
       ELSE IF related_ids = <<>> /\ query_seed_candidates = <<>> THEN response
       ELSE IF candidate_ids = <<>> THEN response
       ELSE ExpandLoop(payload, candidate_ids, 1, response.items,
                       response.composed_tokens_estimate)

\* ---- requests -------------------------------------------------------------

\* MemoryItem payloads (confidence and salience left to inference)
\* expires_at is the instant; expires_offset is the UTC offset, in minutes, the
\* client wrote it with (pydantic keeps the offset of an aware datetime)
ItemA == [type |-> "fact", text |-> TextMedium, trust_level |-> "trusted_tool",
          expires_at |-> NoTime, expires_offset |-> 0]
ItemB == [type |-> "event", text |-> TextLong, trust_level |-> "untrusted_web",
          expires_at |-> MaxTime, expires_offset |-> 0]
\* an item that expires at the first instant, written as a +02:00 timestamp
ItemC == [type |-> "episode", text |-> TextMedium, trust_level |-> "user_claim",
          expires_at |-> 1, expires_offset |-> 120]

RememberRequest(tenant_id, agent_id, scope, items, idempotency_key) ==
    [tenant_id |-> tenant_id, agent_id |-> agent_id, scope |-> scope,
     items |-> items, idempotency_key |-> idempotency_key]

Principals == {<<"t1", "a1">>, <<"t1", "a2">>, <<"t2", "a1">>}

\* idempotency_key: str | None, max_length=128 (the empty string is accepted)
KeyChoices == {"", "k1"}

\* The remember calls of the model: every principal and scope with one item;
\* the expiring item and a two-item batch; keyed calls, one with another batch.
RememberRequests ==
    {RememberRequest("t1", "a1", sc, <<ItemA>>, None) : sc \in Scopes}
    \cup {RememberRequest("t1", "a2", sc, <<ItemA>>, None) : sc \in {"private", "team"}}
    \cup {RememberRequest("t2", "a1", "global", <<ItemA>>, None)}
    \cup {RememberRequest("t1", "a1", sc, <<ItemB>>, None) : sc \in {"private", "team"}}
    \cup {RememberRequest("t1", "a1", "team", <<ItemB, ItemA>>, None)}
    \cup {RememberRequest("t1", "a1", "team", <<ItemA>>, k) : k \in KeyChoices}
    \cup {RememberRequest("t1", "a1", "team", <<ItemA, ItemB>>, "k1")}
    \cup {RememberRequest("t1", "a1", "team", <<ItemC>>, None)}

RecallRequest(tenant_id, agent_id, scope, trust_min, types, max_items, max_tokens) ==
    [tenant_id |-> tenant_id, agent_id |-> agent_id, scope |-> scope,
     query |-> QueryRelease, trust_min |-> trust_min, types |-> types,
     max_items |-> max_items, max_tokens |-> max_tokens]

\* The recall calls of the model: every principal and scope with the default
\* filters and budget; the filters one by one; the budgets that make the
\* packing loop stop or skip.
RecallRequests ==
    {RecallRequest(p[1], p[2], sc, 0, NoTypes, DefaultMaxItems, DefaultMaxTokens) :
        p \in Principals, sc \in Scopes}
    \cup {RecallRequest("t1", "a1", "global", 70, NoTypes, DefaultMaxItems, DefaultMaxTokens),
          RecallRequest("t1", "a1", "global", 0, {"fact"}, DefaultMaxItems, DefaultMaxTokens),
          RecallRequest("t1", "a1", "global", 0, {}, DefaultMaxItems, DefaultMaxTokens)}
    \cup {RecallRequest("t1", "a1", "global", 0, NoTypes, 1, 2 * MinMaxTokens),
          RecallRequest("t1", "a1", "global", 0, NoTypes, 2, MinMaxTokens),
          RecallRequest("t1", "a1", "global", 0, NoTypes, 2, 2 * MinMaxTokens)}

NoCall == [op |-> "none"]

\* ---- the operations ---------------------------------------------------------

\* `if payload.idempotency_key:`
HasIdempotencyKey(payload) ==
    payload.idempotency_key # None /\ payload.idempotency_key # ""

\* the MemoryRecord built for one item
NewRecord(payload, item, at) ==
    [tenant_id |-> payload.tenant_id, agent_id |-> payload.agent_id,
     type |-> item.type, scope |-> payload.scope, text |-> item.text,
     trust_level |-> item.trust_level,
     confidence |-> infer_confidence(item.text, item.trust_level),
     salience |-> infer_salience(item.text, item.type),
     created_at |-> at, expires_at |-> item.expires_at,
     expires_offset |-> item.expires_offset, tombstoned |-> FALSE]

\* repository.remember, followed (in the API handler, project = TRUE) by the
\* projection of every returned id into the graph; the MCP tool and the
\* compaction call the repository alone (project = FALSE)
Remember(payload, project) ==
    LET k == <<payload.tenant_id, payload.idempotency_key>>
        replay == HasIdempotencyKey(payload) /\ k \in DOMAIN idempotency
        n == Len(payload.items)
        memory_ids == [i \in 1..n |-> Len(records) + i]
        response == IF replay
                    THEN [memory_ids |-> idempotency[k].memory_ids,
                          warnings |-> Append(idempotency[k].warnings, "idempotency_replay")]
                    ELSE [memory_ids |-> memory_ids, warnings |-> <<>>]
        g == IF project
             THEN ProjectAll([terms |-> terms, edges |-> edges], payload.tenant_id,
                             response.memory_ids, payload.items, now)
             ELSE [terms |-> terms, edges |-> edges]
        before == IF k \in DOMAIN keyHistory THEN keyHistory[k]
                  ELSE [calls |-> 0, memory_ids |-> response.memory_ids,
                        items |-> n, written |-> 0]
    IN /\ last = NoCall
       /\ before.calls < MaxCalls
       /\ replay \/ Len(records) + n <= MaxRecords
       /\ records' = IF replay THEN records
                     ELSE records \o [i \in 1..n |-> NewRecord(payload, payload.items[i], now)]
       /\ idempotency' = IF HasIdempotencyKey(payload) /\ ~replay
                         THEN [x \in DOMAIN idempotency \cup {k} |->
                                  IF x = k THEN response ELSE idempotency[x]]
                         ELSE idempotency
       /\ terms' = g.terms
       /\ edges' = g.edges
       /\ last' = [op |-> "remember", payload |-> payload, project |-> project,
                   before |-> [records |-> records, terms |-> terms, edges |-> edges],
                   memory_ids |-> response.memory_ids, warnings |-> response.warnings]
       /\ keyHistory' = IF payload.idempotency_key = None THEN keyHistory
                        ELSE [x \in DOMAIN keyHistory \cup {k} |->
                                 IF x = k
                                 THEN [before EXCEPT !.calls = @ + 1,
                                                     !.written = @ + (IF replay THEN 0 ELSE n)]
                                 ELSE keyHistory[x]]
       /\ UNCHANGED <<backend, now, forgotten, jobVars, registryVars, callerVars, pairVars, trainVars, expandVars, loopVars, sharedVars, tokenVars, projVars>>

\* repository.recall
Recall(payload) ==
    /\ last = NoCall
    /\ last' = [op |-> "recall", payload |-> payload,
                items |-> RepositoryRecall(payload).items,
                composed_tokens_estimate |-> RepositoryRecall(payload).composed_tokens_estimate,
                conflicts |-> detect_conflicts(RepositoryRecall(payload).items)]
    /\ UNCHANGED <<backend, records, idempotency, now, terms, edges, keyHistory, forgotten, jobVars, registryVars, callerVars, pairVars, trainVars, expandVars, loopVars, sharedVars, tokenVars, projVars>>

\* GraphAugmentedRepository.recall
GraphRecall(payload) ==
    /\ last = NoCall
    /\ \E query_seed_candidates \in GraphQuerySeeds(payload) :
         \E related_ids \in GraphRelated(payload, query_seed_candidates) :
            LET response == GraphRecallResponse(payload, query_seed_candidates, related_ids)
            IN last' = [op |-> "graph_recall", payload |-> payload,
                        items |-> response.items,
                        composed_tokens_estimate |-> response.composed_tokens_estimate,
                        base |-> GraphBaseResponse(payload).items,
                        query_seed_candidates |->
                            IF GraphRemainingSlots(payload) <= 0 THEN <<>>
                            ELSE query_seed_candidates,
                        related_ids |->
                            IF GraphRemainingSlots(payload) <= 0 THEN <<>>
                            ELSE related_ids]
    /\ UNCHANGED <<backend, records, idempotency, now, terms, edges, keyHistory, forgotten, jobVars, registryVars, callerVars, pairVars, trainVars, expandVars, loopVars, sharedVars, tokenVars, projVars>>

\* repository.inspect
Inspect(tenant_id, agent_id, scope, memory_id) ==
    /\ last = NoCall
    /\ last' = [op |-> "inspect", tenant_id |-> tenant_id, agent_id |-> agent_id,
                scope |-> scope, memory_id |-> memory_id,
                found |-> RepositoryInspect(tenant_id, agent_id, scope, memory_id)]
    /\ UNCHANGED <<backend, records, idempotency, now, terms, edges, keyHistory, forgotten, jobVars, registryVars, callerVars, pairVars, trainVars, expandVars, loopVars, sharedVars, tokenVars, projVars>>

\* repository.forget
Forget(tenant_id, agent_id, memory_id) ==
    LET deleted == ForgetDeletes(tenant_id, agent_id, memory_id)
    IN /\ last = NoCall
       /\ records' = IF deleted THEN [records EXCEPT ![memory_id].tombstoned = TRUE]
                     ELSE records
       /\ forgotten' = IF deleted THEN [forgotten EXCEPT ![memory_id] = @ + 1] ELSE forgotten
       /\ last' = [op |-> "forget", tenant_id |-> tenant_id, agent_id |-> agent_id,
                   memory_id |-> memory_id, deleted |-> deleted,
                   before |-> records,
                   was_tombstoned |-> memory_id \in DOMAIN records
                                      /\ records[memory_id].tombstoned]
       /\ UNCHANGED <<backend, idempotency, now, terms, edges, keyHistory, jobVars, registryVars, callerVars, pairVars, trainVars, expandVars, loopVars, sharedVars, tokenVars, projVars>>

\* datetime.isoformat() of an instant written with a UTC offset, as the
\* minutes its wall-clock fields count (one unit of time is HalfLifeHours)
IsoWallClock(instant, offset) == instant * HalfLifeHours * 60 + offset

\* SQLite's `expires_at <= ?` on the TEXT column: the isoformat strings are
\* compared character by character, the wall-clock fields first and the
\* offset suffix last; the cutoff is datetime.now(UTC), suffix "+00:00",
\* which sorts before every other suffix
IsoTextLessEq(instant, offset, cutoff) ==
    \/ IsoWallClock(instant, offset) < IsoWallClock(cutoff, 0)
    \/ IsoWallClock(instant, offset) = IsoWallClock(cutoff, 0) /\ offset = 0

\* rows purge_expired tombstones: of the tenant, live, expires_at <= cutoff
\* (compared as datetimes in memory, as isoformat text in SQLite)
PurgeTargetsOn(b, tenant_id, grace) ==
    {id \in DOMAIN records : /\ records[id].tenant_id = tenant_id
                             /\ ~records[id].tombstoned
                             /\ records[id].expires_at # NoTime
                             /\ IF b = "inmemory"
                                THEN records[id].expires_at <= now - grace
                                ELSE IsoTextLessEq(records[id].expires_at,
                                                   records[id].expires_offset,
                                                   now - grace)}

PurgeTargets(tenant_id, grace) == PurgeTargetsOn(backend, tenant_id, grace)

\* grace periods purge_expired is called with, in half-lives
GraceInputs == {0, 1}

\* repository.purge_expired(tenant_id, grace_hours)
PurgeExpired(tenant_id, grace) ==
    /\ last = NoCall
    /\ records' = [id \in DOMAIN records |->
                      IF id \in PurgeTargets(tenant_id, grace)
                      THEN [records[id] EXCEPT !.tombstoned = TRUE] ELSE records[id]]
    /\ last' = [op |-> "purge_expired", tenant_id |-> tenant_id, grace |-> grace,
                before |-> records,
                purged |-> Cardinality(PurgeTargets(tenant_id, grace))]
    /\ UNCHANGED <<backend, idempotency, now, terms, edges, keyHistory, forgotten, jobVars, registryVars, callerVars, pairVars, trainVars, expandVars, loopVars, sharedVars, tokenVars, projVars>>

\* the call returns: its response goes to the caller (calls are serialised
\* by the repository lock)
Return ==
    /\ last # NoCall
    /\ last' = NoCall
    /\ UNCHANGED <<backend, records, idempotency, now, terms, edges, keyHistory, forgotten, jobVars, registryVars, callerVars, pairVars, trainVars, expandVars, loopVars, sharedVars, tokenVars, projVars>>

\* time passes
Tick ==
    /\ last = NoCall
    /\ now < MaxTime
    /\ now' = now + 1
    /\ last' = NoCall
    /\ UNCHANGED <<backend, records, idempotency, terms, edges, keyHistory, forgotten, jobVars, registryVars, callerVars, pairVars, trainVars, expandVars, loopVars, sharedVars, tokenVars, projVars>>

StoreStart ==
    /\ records = <<>>
    /\ idempotency = [k \in {} |-> NoCall]
    /\ now = 1
    /\ terms = {}
    /\ edges = [k \in {} |-> NoCall]
    /\ last = NoCall
    /\ keyHistory = [k \in {} |-> NoCall]
    /\ forgotten = [id \in MemoryIds |-> 0]

StoreInit == backend \in {"inmemory", "sqlite"} /\ StoreStart

\* ---- recall over short texts that agree or disagree -------------------------
MaxConflictRecords == 3

ConflictItem(type, text) ==
    [type |-> type, text |-> text, trust_level |-> "trusted_tool",
     expires_at |-> NoTime, expires_offset |-> 0]

ConflictItems ==
    {ConflictItem("fact", text) :
        text \in {TextCan, TextCannot, TextCanNot, TextCanNotBang, TextDeploys, TextMarks}}
    \cup {ConflictItem("event", TextCan), ConflictItem("event", TextCannot)}

\* the repository after remember calls of one agent that wrote the items
Remembered(items) ==
    [i \in 1..Len(items) |->
        NewRecord(RememberRequest("t1", "a1", "team", items, None), items[i], 1)]

ConflictInit ==
    /\ backend \in {"inmemory", "sqlite"}
    /\ \E n \in 0..MaxConflictRecords :
          \E items \in [1..n -> ConflictItems] : records = Remembered(items)
    /\ idempotency = [k \in {} |-> NoCall]
    /\ now = 1
    /\ terms = {}
    /\ edges = [k \in {} |-> NoCall]
    /\ last = NoCall
    /\ keyHistory = [k \in {} |-> NoCall]
    /\ forgotten = [id \in MemoryIds |-> 0]

\* ---- augmented recall over a projected graph of three memories ------------
MaxExpandRecords == 3

\* a fact whose text is the query's word
ItemR == [type |-> "fact", text |-> QueryRelease, trust_level |-> "trusted_tool",
          expires_at |-> NoTime, expires_offset |-> 0]

ExpandItems == {ItemA, ItemB, ItemR}

\* max_expansion as configured: off, one, the default
ExpansionInputs == {0, 1, MaxExpansion}

\* recall requests of the agent that wrote the memories: the default budget and
\* a budget of two or three items, without filters, with a trust floor, with
\* a types filter
ExpandRequests ==
    {RecallRequest("t1", "a1", "team", trust_min, types, max_items, DefaultMaxTokens) :
        trust_min \in {0, 70}, types \in {NoTypes, {"fact"}},
        max_items \in {1, 2, 3, DefaultMaxItems}}

\* the API wrote the items one call at a time: each record was projected into
\* the graph when it was written
ExpandInit ==
    /\ backend \in {"inmemory", "sqlite"}
    /\ max_expansion \in ExpansionInputs
    /\ \E n \in 0..MaxExpandRecords :
          \E items \in [1..n -> ExpandItems] :
             LET g == ProjectAll([terms |-> {}, edges |-> [k \in {} |-> NoCall]], "t1",
                                 [i \in 1..n |-> i], items, 1)
             IN /\ records = Remembered(items)
                /\ terms = g.terms
                /\ edges = g.edges
    /\ idempotency = [k \in {} |-> NoCall]
    /\ now = 1
    /\ last = NoCall
    /\ keyHistory = [k \in {} |-> NoCall]
    /\ forgotten = [id \in MemoryIds |-> 0]

ExpandNext ==
    \/ \E payload \in ExpandRequests : GraphRecall(payload)
    \/ Return

ConflictNext ==
    \/ \E payload \in RecallRequests : Recall(payload)
    \/ Return

StoreNext ==
    \/ \E payload \in RememberRequests : Remember(payload, TRUE)
    \/ Remember(RememberRequest("t1", "a2", "team", <<ItemB>>, None), FALSE)
    \/ \E payload \in RecallRequests : Recall(payload)
    \/ \E payload \in RecallRequests : GraphRecall(payload)
    \/ \E p \in Principals, sc \in Scopes, id \in MemoryIds : Inspect(p[1], p[2], sc, id)
    \/ \E p \in Principals, id \in MemoryIds : Forget(p[1], p[2], id)
    \/ \E t \in Tenants, grace \in GraceInputs : PurgeExpired(t, grace)
    \/ Return
    \/ Tick

\* ------------------------------------------------------------------------
\* Concurrent remember calls (store.py): the steps of one call
\* ------------------------------------------------------------------------
NumCallers == 2

Callers == 1..NumCallers
NoCaller == 0

\* the calls the callers make: one key with two different batches, and a call
\* with another key
ConcurrentRequests ==
    {RememberRequest("t1", "a1", "team", <<ItemA>>, "k1"),
     RememberRequest("t1", "a2", "team", <<ItemA, ItemB>>, "k1"),
     RememberRequest("t1", "a1", "team", <<ItemA>>, "k2")}

IdleCaller == [pc |-> "idle"]

\* the repository object (and so the RLock) a caller goes through
RepositoryOf(p) == IF sharing = "threads" THEN 1 ELSE p

CallersStart ==
    /\ callers = [p \in Callers |-> IdleCaller]
    /\ repoLock = [r \in Callers |-> NoCaller]

\* a request arrives: remember(payload) is called
CallRemember(p, payload) ==
    /\ callers[p].pc = "idle"
    /\ callers' = [callers EXCEPT ![p] = [pc |-> "lock", payload |-> payload]]
    /\ UNCHANGED <<sharing, repoLock, storeVars, jobVars, registryVars, pairVars, trainVars, expandVars, loopVars, sharedVars, tokenVars, projVars>>

\* `with self._lock` (and, for SQLite, entering the connection context, which
\* begins no transaction)
AcquireLock(p) ==
    /\ callers[p].pc = "lock"
    /\ repoLock[RepositoryOf(p)] = NoCaller
    /\ repoLock' = [repoLock EXCEPT ![RepositoryOf(p)] = p]
    /\ callers' = [callers EXCEPT ![p].pc = "select"]
    /\ UNCHANGED <<sharing, storeVars, jobVars, registryVars, pairVars, trainVars, expandVars, loopVars, sharedVars, tokenVars, projVars>>

\* the idempotency lookup: `self._idempotency.get(key)` / the SELECT on
\* idempotency_records; a hit returns the stored response with the warning
LookupIdempotency(p) ==
    LET payload == callers[p].payload
        k == <<payload.tenant_id, payload.idempotency_key>>
        replay == HasIdempotencyKey(payload) /\ k \in DOMAIN idempotency
    IN /\ callers[p].pc = "select"
       /\ repoLock[RepositoryOf(p)] = p
       /\ IF replay
          THEN /\ callers' = [callers EXCEPT ![p] =
                      [pc |-> "done", payload |-> payload,
                       memory_ids |-> idempotency[k].memory_ids,
                       warnings |-> Append(idempotency[k].warnings, "idempotency_replay")]]
               /\ repoLock' = [repoLock EXCEPT ![RepositoryOf(p)] = NoCaller]
          ELSE /\ callers' = [callers EXCEPT ![p].pc = "insert"]
               /\ UNCHANGED repoLock
       /\ UNCHANGED <<sharing, storeVars, jobVars, registryVars, pairVars, trainVars, expandVars, loopVars, sharedVars, tokenVars, projVars>>

\* the writes: one record per item, then the idempotency record (INSERT OR
\* REPLACE in SQLite, committed with the records when the connection context
\* exits), and the lock is released
WriteAndStore(p) ==
    LET payload == callers[p].payload
        k == <<payload.tenant_id, payload.idempotency_key>>
        n == Len(payload.items)
        response == [memory_ids |-> [i \in 1..n |-> Len(records) + i], warnings |-> <<>>]
    IN /\ callers[p].pc = "insert"
       /\ repoLock[RepositoryOf(p)] = p
       /\ records' = records \o [i \in 1..n |-> NewRecord(payload, payload.items[i], now)]
       /\ idempotency' = IF HasIdempotencyKey(payload)
                         THEN [x \in DOMAIN idempotency \cup {k} |->
                                  IF x = k THEN response ELSE idempotency[x]]
                         ELSE idempotency
       /\ callers' = [callers EXCEPT ![p] =
              [pc |-> "done", payload |-> payload,
               memory_ids |-> response.memory_ids, warnings |-> response.warnings]]
       /\ repoLock' = [repoLock EXCEPT ![RepositoryOf(p)] = NoCaller]
       /\ UNCHANGED <<sharing, backend, now, terms, edges, last, keyHistory, forgotten,
                      jobVars, registryVars, pairVars, trainVars, expandVars, loopVars, sharedVars, tokenVars, projVars>>

\* the deployments: threads of one process on either backend, or processes
\* sharing the SQLite file
ConcurrentInit ==
    /\ StoreStart
    /\ CallersStart
    /\ \/ sharing = "threads" /\ backend \in {"inmemory", "sqlite"}
       \/ sharing = "processes" /\ backend = "sqlite"

ConcurrentNext ==
    \/ \E p \in Callers, payload \in ConcurrentRequests : CallRemember(p, payload)
    \/ \E p \in Callers : AcquireLock(p)
    \/ \E p \in Callers : LookupIdempotency(p)
    \/ \E p \in Callers : WriteAndStore(p)

\* ------------------------------------------------------------------------
\* The model registry (model_registry.py)
\* ------------------------------------------------------------------------
MaxEvents == 3

ModelKinds == {"reranker", "salience"}
\* a kind the registry has no state for
UnsupportedKind == "embedding"
CanaryVersion == "v2"
\* the versions register_canary is called with
CanaryVersions == {CanaryVersion, "v3"}
RolloutInputs == {-1, 0, 10, 17, 100, 101}
AllowlistInputs == {{}, {"t1"}}
\* metadata dicts: {} of a fresh ModelState, and the one register_canary is
\* called with
EmptyMetadata == "{}"
MetadataInputs == {"{owner: a1}"}
\* the tenants select_version is asked about: those of the stores, and two
\* whose reranker buckets are the ends of the range (99 and 0)
RolloutTenants == Tenants \cup {"t29", "t35"}

\* _stable_bucket(f"{model_kind}:{tenant_id}"): int(sha256(key)[:8], 16) % 100
stable_bucket(model_kind, tenant_id) ==
    CASE model_kind = "reranker" /\ tenant_id = "t1" -> 46
      [] model_kind = "reranker" /\ tenant_id = "t2" -> 17
      [] model_kind = "salience" /\ tenant_id = "t1" -> 9
      [] model_kind = "salience" /\ tenant_id = "t2" -> 40
      [] model_kind = "reranker" /\ tenant_id = "t29" -> 99
      [] model_kind = "salience" /\ tenant_id = "t29" -> 94
      [] model_kind = "reranker" /\ tenant_id = "t35" -> 0
      [] model_kind = "salience" /\ tenant_id = "t35" -> 21

\* ModelRegistry.__init__ with an empty store: the two default states
RegistryStart ==
    /\ registry_states = [kind \in {"reranker", "salience"} |->
                             [active_version |-> IF kind = "reranker"
                                                 THEN "reranker-baseline-v1"
                                                 ELSE "salience-baseline-v1",
                              canary_version |-> None,
                              rollout_percent |-> 0,
                              tenant_allowlist |-> {},
                              metadata |-> EmptyMetadata,
                              updated_at |-> 0]]
    /\ registry_events = <<>>
    /\ registry_signals = <<>>
    /\ selected = NoCall

\* append_event: kind of model, kind of event
RegistryEvent(model_kind, event_kind) ==
    [model_kind |-> model_kind, event_kind |-> event_kind]

\* datetime.now(UTC) of the registry, as a logical time
RegistryNow == Len(registry_events) + 1

\* what a registry call leaves behind for its caller: the call, the registry
\* as it was when the call started, and the ValueError it raised (None: it
\* returned the serialized state)
RegistryCall(op, model_kind, error) ==
    [op |-> op, model_kind |-> model_kind,
     before |-> <<registry_states, registry_events, registry_signals>>,
     error |-> error]

\* what register_canary leaves behind for its caller: a RegistryCall with the
\* rollout_percent it was called with
RegisterCall(model_kind, rollout_percent, error) ==
    [op |-> "register_canary", model_kind |-> model_kind,
     rollout_percent |-> rollout_percent,
     before |-> <<registry_states, registry_events, registry_signals>>,
     error |-> error]

\* (mutant) the range of rollout_percent is tested after the state was
\* written and persisted
RegisterCanaryValidatesLate(model_kind, version, rollout_percent, tenant_allowlist, metadata) ==
    /\ Len(registry_events) < MaxEvents
    /\ IF model_kind \notin DOMAIN registry_states
       THEN /\ selected' = RegisterCall(model_kind, rollout_percent,
                                        "unsupported_model_kind")
            /\ UNCHANGED <<registry_states, registry_events>>
       ELSE /\ selected' = RegisterCall(model_kind, rollout_percent,
                                        IF rollout_percent < 0 \/ rollout_percent > 100
                                        THEN "rollout_percent_out_of_range" ELSE None)
            /\ registry_states' =
                 [registry_states EXCEPT ![model_kind] =
                     [@ EXCEPT !.canary_version = version,
                               !.rollout_percent = rollout_percent,
                               !.tenant_allowlist = tenant_allowlist,
                               !.metadata = metadata,
                               !.updated_at = RegistryNow]]
            /\ IF rollout_percent < 0 \/ rollout_percent > 100
               THEN UNCHANGED registry_events
               ELSE registry_events' = Append(registry_events,
                                              RegistryEvent(model_kind, "register_canary"))
    /\ UNCHANGED <<registry_signals, jobVars, storeVars, callerVars, pairVars, trainVars, expandVars, loopVars, sharedVars, tokenVars, projVars>>

\* the assignments of register_canary to the kind's ModelState
RegisterState(state, version, rollout_percent, tenant_allowlist, metadata, at) ==
    [state EXCEPT !.canary_version = version,
                  !.rollout_percent = rollout_percent,
                  !.tenant_allowlist = tenant_allowlist,
                  !.metadata = metadata,
                  !.updated_at = at]

\* register_canary: ValueError("rollout_percent_out_of_range") before anything
\* is touched, ValueError("unsupported_model_kind") from _require_state
RegisterCanary(model_kind, version, rollout_percent, tenant_allowlist, metadata) ==
    /\ Len(registry_events) < MaxEvents
    /\ IF rollout_percent < 0 \/ rollout_percent > 100
       THEN /\ selected' = RegisterCall(model_kind, rollout_percent,
                                        "rollout_percent_out_of_range")
            /\ UNCHANGED <<registry_states, registry_events>>
       ELSE IF model_kind \notin DOMAIN registry_states
       THEN /\ selected' = RegisterCall(model_kind, rollout_percent,
                                        "unsupported_model_kind")
            /\ UNCHANGED <<registry_states, registry_events>>
       ELSE /\ selected' = RegisterCall(model_kind, rollout_percent, None)
            /\ registry_states' =
                 [registry_states EXCEPT ![model_kind] =
                     RegisterState(@, version, rollout_percent, tenant_allowlist,
                                   metadata, RegistryNow)]
            /\ registry_events' = Append(registry_events,
                                         RegistryEvent(model_kind, "register_canary"))
    /\ UNCHANGED <<registry_signals, jobVars, storeVars, callerVars, pairVars, trainVars, expandVars, loopVars, sharedVars, tokenVars, projVars>>

\* (mutant) the promotion keeps the rollout percentage and the allowlist
PromoteCanaryKeepsRollout(model_kind) ==
    /\ Len(registry_events) < MaxEvents
    /\ IF model_kind \notin DOMAIN registry_states
       THEN /\ selected' = RegistryCall("promote_canary", model_kind,
                                        "unsupported_model_kind")
            /\ UNCHANGED <<registry_states, registry_events>>
       ELSE IF registry_states[model_kind].canary_version = None
       THEN /\ selected' = RegistryCall("promote_canary", model_kind, "canary_not_set")
            /\ UNCHANGED <<registry_states, registry_events>>
       ELSE /\ selected' = RegistryCall("promote_canary", model_kind, None)
            /\ registry_states' =
                 [registry_states EXCEPT ![model_kind] =
                     [@ EXCEPT !.active_version = registry_states[model_kind].canary_version,
                               !.updated_at = RegistryNow]]
            /\ registry_events' = Append(registry_events,
                                         RegistryEvent(model_kind, "promote_canary"))
    /\ UNCHANGED <<registry_signals, jobVars, storeVars, callerVars, pairVars, trainVars, expandVars, loopVars, sharedVars, tokenVars, projVars>>

\* promote_canary: ValueError("canary_not_set") without a canary
PromoteCanary(model_kind) ==
    /\ Len(registry_events) < MaxEvents
    /\ IF model_kind \notin DOMAIN registry_states
       THEN /\ selected' = RegistryCall("promote_canary", model_kind,
                                        "unsupported_model_kind")
            /\ UNCHANGED <<registry_states, registry_events>>
       ELSE IF registry_states[model_kind].canary_version = None
       THEN /\ selected' = RegistryCall("promote_canary", model_kind, "canary_not_set")
            /\ UNCHANGED <<registry_states, registry_events>>
       ELSE /\ selected' = RegistryCall("promote_canary", model_kind, None)
            /\ registry_states' =
                 [registry_states EXCEPT ![model_kind] =
                     [@ EXCEPT !.active_version = registry_states[model_kind].canary_version,
                               !.canary_version = None,
                               !.rollout_percent = 0,
                               !.tenant_allowlist = {},
                               !.updated_at = RegistryNow]]
            /\ registry_events' = Append(registry_events,
                                         RegistryEvent(model_kind, "promote_canary"))
    /\ UNCHANGED <<registry_signals, jobVars, storeVars, callerVars, pairVars, trainVars, expandVars, loopVars, sharedVars, tokenVars, projVars>>

\* (mutant) the rollback also empties the metadata
RollbackStateClearsMetadata(state, at) ==
    [state EXCEPT !.canary_version = None,
                  !.rollout_percent = 0,
                  !.tenant_allowlist = {},
                  !.metadata = EmptyMetadata,
                  !.updated_at = at]

\* (mutant) the rollback leaves the rollout percentage as it was
RollbackStateKeepsRollout(state, at) ==
    [state EXCEPT !.canary_version = None,
                  !.tenant_allowlist = {},
                  !.updated_at = at]

\* the assignments of rollback_canary to the kind's ModelState
RollbackState(state, at) ==
    [state EXCEPT !.canary_version = None,
                  !.rollout_percent = 0,
                  !.tenant_allowlist = {},
                  !.updated_at = at]

\* (mutant) a rollback with no canary set returns without persisting or
\* appending the audit event
RollbackCanaryQuietNoop(model_kind) ==
    /\ Len(registry_events) < MaxEvents
    /\ IF model_kind \notin DOMAIN registry_states
       THEN /\ selected' = RegistryCall("rollback_canary", model_kind,
                                        "unsupported_model_kind")
            /\ UNCHANGED <<registry_states, registry_events>>
       ELSE IF registry_states[model_kind].canary_version = None
       THEN /\ selected' = RegistryCall("rollback_canary", model_kind, None)
            /\ UNCHANGED <<registry_states, registry_events>>
       ELSE /\ selected' = RegistryCall("rollback_canary", model_kind, None)
            /\ registry_states' =
                 [registry_states EXCEPT ![model_kind] = RollbackState(@, RegistryNow)]
            /\ registry_events' = Append(registry_events,
                                         RegistryEvent(model_kind, "rollback_canary"))
    /\ UNCHANGED <<registry_signals, jobVars, storeVars, callerVars, pairVars, trainVars, expandVars, loopVars, sharedVars, tokenVars, projVars>>

\* rollback_canary
RollbackCanary(model_kind) ==
    /\ Len(registry_events) < MaxEvents
    /\ IF model_kind \notin DOMAIN registry_states
       THEN /\ selected' = RegistryCall("rollback_canary", model_kind,
                                        "unsupported_model_kind")
            /\ UNCHANGED <<registry_states, registry_events>>
       ELSE /\ selected' = RegistryCall("rollback_canary", model_kind, None)
            /\ registry_states' =
                 [registry_states EXCEPT ![model_kind] = RollbackState(@, RegistryNow)]
            /\ registry_events' = Append(registry_events,
                                         RegistryEvent(model_kind, "rollback_canary"))
    /\ UNCHANGED <<registry_signals, jobVars, storeVars, callerVars, pairVars, trainVars, expandVars, loopVars, sharedVars, tokenVars, projVars>>

\* record_signal
RecordSignal(model_kind, version) ==
    /\ Len(registry_events) < MaxEvents
    /\ IF model_kind \notin DOMAIN registry_states
       THEN /\ selected' = RegistryCall("record_signal", model_kind,
                                        "unsupported_model_kind")
            /\ UNCHANGED <<registry_states, registry_events, registry_signals>>
       ELSE /\ selected' = RegistryCall("record_signal", model_kind, None)
            /\ registry_signals' = Append(registry_signals,
                                          [model_kind |-> model_kind, version |-> version])
            /\ registry_states' =
                 [registry_states EXCEPT ![model_kind] = [@ EXCEPT !.updated_at = RegistryNow]]
            /\ registry_events' = Append(registry_events,
                                         RegistryEvent(model_kind, "record_signal"))
    /\ UNCHANGED <<jobVars, storeVars, callerVars, pairVars, trainVars, expandVars, loopVars, sharedVars, tokenVars, projVars>>

\* (mutant) the rollout percentage is looked at before the allowlist
select_version_percent_first(state, model_kind, tenant_id) ==
    IF state.canary_version = None THEN <<state.active_version, "active">>
    ELSE IF state.rollout_percent <= 0 THEN <<state.active_version, "active">>
    ELSE IF tenant_id \in state.tenant_allowlist
         THEN <<state.canary_version, "canary_allowlist">>
    ELSE IF stable_bucket(model_kind, tenant_id) < state.rollout_percent
         THEN <<state.canary_version, "canary_percent">>
    ELSE <<state.active_version, "active">>

\* (mutant) the bucket comparison is inverted
select_version_bucket_at_least(state, model_kind, tenant_id) ==
    IF state.canary_version = None THEN <<state.active_version, "active">>
    ELSE IF tenant_id \in state.tenant_allowlist
         THEN <<state.canary_version, "canary_allowlist">>
    ELSE IF state.rollout_percent <= 0 THEN <<state.active_version, "active">>
    ELSE IF stable_bucket(model_kind, tenant_id) >= state.rollout_percent
         THEN <<state.canary_version, "canary_percent">>
    ELSE <<state.active_version, "active">>

\* select_version on the state of a supported kind: (version, route)
select_version(state, model_kind, tenant_id) ==
    IF state.canary_version = None THEN <<state.active_version, "active">>
    ELSE IF tenant_id \in state.tenant_allowlist
         THEN <<state.canary_version, "canary_allowlist">>
    ELSE IF state.rollout_percent <= 0 THEN <<state.active_version, "active">>
    ELSE IF stable_bucket(model_kind, tenant_id) < state.rollout_percent
         THEN <<state.canary_version, "canary_percent">>
    ELSE <<state.active_version, "active">>

\* ModelRegistry.select_version(model_kind, tenant_id)
SelectVersion(model_kind, tenant_id) ==
    /\ selected' = [op |-> "select_version", model_kind |-> model_kind,
                    tenant_id |-> tenant_id,
                    before |-> <<registry_states, registry_events, registry_signals>>,
                    result |-> IF model_kind \notin DOMAIN registry_states
                               THEN <<None, "unsupported_model_kind">>
                               ELSE select_version(registry_states[model_kind],
                                                   model_kind, tenant_id)]
    /\ UNCHANGED <<registry_states, registry_events, registry_signals, jobVars, storeVars, callerVars, pairVars, trainVars, expandVars, loopVars, sharedVars, tokenVars, projVars>>

\* get_state: _require_state, then the serialized state
GetState(model_kind) ==
    /\ selected' = RegistryCall("get_state", model_kind,
                                IF model_kind \notin DOMAIN registry_states
                                THEN "unsupported_model_kind" ELSE None)
    /\ UNCHANGED <<registry_states, registry_events, registry_signals, jobVars, storeVars, callerVars, pairVars, trainVars, expandVars, loopVars, sharedVars, tokenVars, projVars>>

\* history: _require_state, then the stored events and signals
History(model_kind) ==
    /\ selected' = RegistryCall("history", model_kind,
                                IF model_kind \notin DOMAIN registry_states
                                THEN "unsupported_model_kind" ELSE None)
    /\ UNCHANGED <<registry_states, registry_events, registry_signals, jobVars, storeVars, callerVars, pairVars, trainVars, expandVars, loopVars, sharedVars, tokenVars, projVars>>

RegistryInit == RegistryStart
RegistryIdle == RegistryStart

RegistryNext ==
    \/ \E kind \in ModelKinds \cup {UnsupportedKind}, rollout \in RolloutInputs,
          allowlist \in AllowlistInputs, version \in CanaryVersions,
          metadata \in MetadataInputs :
          RegisterCanary(kind, version, rollout, allowlist, metadata)
    \/ \E kind \in ModelKinds \cup {UnsupportedKind} : PromoteCanary(kind)
    \/ \E kind \in ModelKinds \cup {UnsupportedKind} : RollbackCanary(kind)
    \/ \E kind \in ModelKinds \cup {UnsupportedKind} : RecordSignal(kind, CanaryVersion)
    \/ \E kind \in ModelKinds \cup {UnsupportedKind}, t \in RolloutTenants :
          SelectVersion(kind, t)
    \/ \E kind \in ModelKinds \cup {UnsupportedKind} : GetState(kind)
    \/ \E kind \in ModelKinds \cup {UnsupportedKind} : History(kind)


\* ------------------------------------------------------------------------
\* An in-process job manager with its worker thread (run_forever) and close
\* ------------------------------------------------------------------------
LoopJobs == 2

LoopStart ==
    /\ loopJobs = <<>>
    /\ loopQueue = <<>>
    /\ loopDead = <<>>
    /\ stop_event = FALSE
    /\ loopAt = "test"
    /\ loopJob = 0

\* submit_* -> _enqueue: the record goes into _jobs and its id on the queue
LoopSubmit ==
    /\ Len(loopJobs) < LoopJobs
    /\ loopJobs' = Append(loopJobs, NewJob("t1", default_max_attempts, Len(loopJobs) + 1))
    /\ loopQueue' = Append(loopQueue, Len(loopJobs) + 1)
    /\ UNCHANGED <<loopDead, stop_event, loopAt, loopJob, jobVars, storeVars, registryVars,
                   callerVars, pairVars, trainVars, expandVars, sharedVars, tokenVars, projVars>>

\* run_forever: while not self._stop_event.is_set()
LoopTest ==
    /\ loopAt = "test"
    /\ loopAt' = IF stop_event THEN "exited" ELSE "get"
    /\ UNCHANGED <<loopJobs, loopQueue, loopDead, stop_event, loopJob, jobVars, storeVars,
                   registryVars, callerVars, pairVars, trainVars, expandVars, sharedVars, tokenVars, projVars>>

\* process_next: self._queue.get(timeout=0.0); on Empty it returns False and
\* the loop waits poll_interval_s (or until the stop event is set)
LoopGet ==
    /\ loopAt = "get"
    /\ IF loopQueue = <<>>
       THEN /\ loopAt' = "test"
            /\ UNCHANGED <<loopQueue, loopJob>>
       ELSE /\ loopAt' = "start"
            /\ loopJob' = Head(loopQueue)
            /\ loopQueue' = Tail(loopQueue)
    /\ UNCHANGED <<loopJobs, loopDead, stop_event, jobVars, storeVars, registryVars,
                   callerVars, pairVars, trainVars, expandVars, sharedVars, tokenVars, projVars>>

\* _execute_inmemory, first locked block
LoopExecStart ==
    /\ loopAt = "start"
    /\ loopJobs' = [loopJobs EXCEPT ![loopJob] = StartRow(@)]
    /\ loopAt' = "run"
    /\ UNCHANGED <<loopQueue, loopDead, stop_event, loopJob, jobVars, storeVars,
                   registryVars, callerVars, pairVars, trainVars, expandVars, sharedVars, tokenVars, projVars>>

\* _execute_inmemory after _execute_job returned (ok) or raised (~ok), then
\* back to the loop's test
LoopExecFinish(ok) ==
    /\ loopAt = "run"
    /\ LET row == OutcomeRow(loopJobs[loopJob], ok, 1)
       IN /\ loopJobs' = [loopJobs EXCEPT ![loopJob] = row]
          /\ loopQueue' = IF row.status = "queued" THEN Append(loopQueue, loopJob)
                          ELSE loopQueue
          /\ loopDead' = IF row.status = "failed" THEN Append(loopDead, loopJob)
                         ELSE loopDead
    /\ loopAt' = "test"
    /\ loopJob' = 0
    /\ UNCHANGED <<stop_event, jobVars, storeVars, registryVars, callerVars, pairVars,
                   trainVars, expandVars, sharedVars, tokenVars, projVars>>

\* (mutant) close also drops what is still on the queue
CloseDrainsQueue ==
    /\ ~stop_event
    /\ stop_event' = TRUE
    /\ loopQueue' = <<>>
    /\ loopJobs' = [j \in DOMAIN loopJobs |->
                       IF loopJobs[j].status = "queued"
                       THEN [loopJobs[j] EXCEPT !.status = "failed"]
                       ELSE loopJobs[j]]
    /\ UNCHANGED <<loopDead, loopAt, loopJob, jobVars, storeVars, registryVars,
                   callerVars, pairVars, trainVars, expandVars, sharedVars, tokenVars, projVars>>

\* close(): set the stop event; the join gives up after one second
Close ==
    /\ ~stop_event
    /\ stop_event' = TRUE
    /\ UNCHANGED <<loopJobs, loopQueue, loopDead, loopAt, loopJob, jobVars, storeVars,
                   registryVars, callerVars, pairVars, trainVars, expandVars, sharedVars, tokenVars, projVars>>

\* the worker thread
LoopThread ==
    \/ LoopTest
    \/ LoopGet
    \/ LoopExecStart
    \/ \E ok \in BOOLEAN : LoopExecFinish(ok)

LoopInit == LoopStart

LoopNext ==
    \/ LoopSubmit
    \/ LoopThread
    \/ Close

\* ------------------------------------------------------------------------
\* Train jobs (jobs.py) on a manager with a model registry attached: the
\* manager's worker executes them while other callers use the registry
\* ------------------------------------------------------------------------
TrainJobs == 2

NoTrainHeld == [job |-> 0, version |-> None, event |-> 0]

\* the JobRecord of submit_train: the payload's model_kind next to the fields
\* of every job
NewTrainJob(model_kind, maxAttempts, at) ==
    [x \in {"model_kind"} |-> model_kind] @@ NewJob("t1", maxAttempts, at)

\* f"{model_kind}-canary-{now:%Y%m%d%H%M%S}-{uuid4().hex[:6]}": fresh for
\* every execution
CandidateVersion(model_kind, job, attempt) ==
    model_kind \o "-canary-" \o ToString(job) \o "-" \o ToString(attempt)

\* (mutant) the train job registers its canary for every tenant
TrainRegisterStateFullRollout(state, version, at) ==
    RegisterState(state, version, 100, {}, EmptyMetadata, at)

\* register_canary(model_kind, version, rollout_percent=10, actor_agent_id)
\* as _execute_job calls it: no allowlist, no metadata
TrainRegisterState(state, version, at) ==
    RegisterState(state, version, 10, {}, EmptyMetadata, at)

TrainStart ==
    /\ trainJobs = <<>>
    /\ trainHeld = NoTrainHeld

\* submit_train(tenant_id, agent_id, model_kind, lookback_days)
TrainSubmit(model_kind) ==
    /\ Len(trainJobs) < TrainJobs
    /\ trainJobs' = Append(trainJobs,
                           NewTrainJob(model_kind, default_max_attempts, Len(trainJobs) + 1))
    /\ UNCHANGED <<trainHeld, jobVars, storeVars, registryVars, callerVars, pairVars, expandVars, loopVars, sharedVars, tokenVars, projVars>>

\* process_next takes the next queued job: running, attempts + 1
TrainClaim ==
    /\ trainHeld = NoTrainHeld
    /\ EarliestQueued(trainJobs) # 0
    /\ LET j == EarliestQueued(trainJobs)
       IN /\ trainJobs' = [trainJobs EXCEPT ![j] = ClaimUpdateRow(@)]
          /\ trainHeld' = [NoTrainHeld EXCEPT !.job = j]
    /\ UNCHANGED <<jobVars, storeVars, registryVars, callerVars, pairVars, expandVars, loopVars, sharedVars, tokenVars, projVars>>

\* _execute_job for a train job: register_canary at 10 percent; when it
\* raises (unsupported_model_kind) the failure is recorded: back to queued
\* or failed
TrainRegister ==
    /\ trainHeld.job # 0
    /\ trainHeld.version = None
    /\ Len(registry_events) < MaxEvents
    /\ LET j == trainHeld.job
           row == trainJobs[j]
           kind == row.model_kind
           version == CandidateVersion(kind, j, row.attempts)
       IN IF kind \notin DOMAIN registry_states
          THEN /\ selected' = RegisterCall(kind, 10, "unsupported_model_kind")
               /\ trainJobs' = [trainJobs EXCEPT
                                   ![j] = FailureRow(row, row.attempts, row.max_attempts,
                                                     RegistryNow)]
               /\ trainHeld' = NoTrainHeld
               /\ UNCHANGED <<registry_states, registry_events>>
          ELSE /\ selected' = RegisterCall(kind, 10, None)
               /\ registry_states' =
                    [registry_states EXCEPT ![kind] =
                        TrainRegisterState(@, version, RegistryNow)]
               /\ registry_events' = Append(registry_events,
                                            RegistryEvent(kind, "register_canary"))
               /\ trainHeld' = [trainHeld EXCEPT !.version = version,
                                                 !.event = Len(registry_events) + 1]
               /\ UNCHANGED trainJobs
    /\ UNCHANGED <<registry_signals, jobVars, storeVars, callerVars, pairVars, expandVars, loopVars, sharedVars, tokenVars, projVars>>

\* the success path: completed, with the candidate_version in the result
TrainFinish ==
    /\ trainHeld.job # 0
    /\ trainHeld.version # None
    /\ trainJobs' = [trainJobs EXCEPT
                        ![trainHeld.job] = [SuccessRow(@, RegistryNow) EXCEPT
                                               !.result = trainHeld.version]]
    /\ trainHeld' = NoTrainHeld
    /\ UNCHANGED <<jobVars, storeVars, registryVars, callerVars, pairVars, expandVars, loopVars, sharedVars, tokenVars, projVars>>

TrainInit == TrainStart

TrainNext ==
    \/ \E kind \in ModelKinds \cup {UnsupportedKind} : TrainSubmit(kind)
    \/ TrainClaim
    \/ TrainRegister
    \/ TrainFinish
    \/ \E kind \in ModelKinds : RollbackCanary(kind)
    \/ \E kind \in ModelKinds : PromoteCanary(kind)

\* ---------------------------------------------------------------------------
\* Two ModelRegistry instances (the API process and a job worker) over one
\* durable store. persisted_states are the rows of model_registry_state,
\* persisted_events the rows of model_registry_events, instance_states[i] the
\* _states instance i loaded in its constructor and has kept since.
\* ---------------------------------------------------------------------------
Instances == {"api", "worker"}
\* the calls on the shared store a behaviour holds
MaxSharedEvents == 3
\* the rollout percentages and the tenants of the calls on the shared store
SharedRollouts == {0, 100}
SharedTenants == {"t1", "t2"}
\* the kind the calls on the shared store are about
SharedKinds == {"reranker"}

\* defaults of ModelRegistry.__init__
default_states ==
    [kind \in ModelKinds |->
        [active_version |-> IF kind = "reranker" THEN "reranker-baseline-v1"
                            ELSE "salience-baseline-v1",
         canary_version |-> None,
         rollout_percent |-> 0,
         tenant_allowlist |-> {},
         metadata |-> EmptyMetadata,
         updated_at |-> 0]]

\* datetime.now(UTC) of either process, as a logical time
SharedNow == Len(persisted_events) + 1

\* what a call through an instance leaves behind for its caller
SharedCall(op, instance, model_kind, error) ==
    [op |-> op, instance |-> instance, model_kind |-> model_kind, error |-> error]

\* both processes were started on the fresh store: each constructor found the
\* defaults (the first one wrote them) and kept its own copy
SharedStart ==
    /\ persisted_states = default_states
    /\ persisted_events = <<>>
    /\ instance_states = [i \in Instances |-> default_states]
    /\ sharedCall = NoCall

\* a process restarts: ModelRegistry.__init__ loads the rows of the store
SharedOpen(i) ==
    /\ instance_states[i] # persisted_states
    /\ instance_states' = [instance_states EXCEPT ![i] = persisted_states]
    /\ sharedCall' = SharedCall("open", i, None, None)
    /\ UNCHANGED <<persisted_states, persisted_events>>
    /\ UNCHANGED <<jobVars, storeVars, registryVars, callerVars, pairVars, trainVars, expandVars, loopVars, tokenVars, projVars>>

\* the end of every mutating call: the instance's own ModelState object is
\* changed in place, upsert_state writes all its columns, append_event
SharedUpsert(i, model_kind, state, event_kind) ==
    /\ instance_states' = [instance_states EXCEPT ![i][model_kind] = state]
    /\ persisted_states' = [persisted_states EXCEPT ![model_kind] = state]
    /\ persisted_events' = Append(persisted_events,
                                  RegistryEvent(model_kind, event_kind))

\* register_canary through instance i
SharedRegisterCanary(i, model_kind, version, rollout_percent, tenant_allowlist) ==
    /\ Len(persisted_events) < MaxSharedEvents
    /\ sharedCall' = SharedCall("register_canary", i, model_kind, None)
    /\ SharedUpsert(i, model_kind,
                    RegisterState(instance_states[i][model_kind], version,
                                  rollout_percent, tenant_allowlist,
                                  EmptyMetadata, SharedNow),
                    "register_canary")
    /\ UNCHANGED <<jobVars, storeVars, registryVars, callerVars, pairVars, trainVars, expandVars, loopVars, tokenVars, projVars>>

\* the assignments of promote_canary to the kind's ModelState
PromoteState(state, at) ==
    [state EXCEPT !.active_version = state.canary_version,
                  !.canary_version = None,
                  !.rollout_percent = 0,
                  !.tenant_allowlist = {},
                  !.updated_at = at]

\* promote_canary through instance i: ValueError("canary_not_set") when the
\* instance's own state has no canary
SharedPromoteCanary(i, model_kind) ==
    /\ Len(persisted_events) < MaxSharedEvents
    /\ IF instance_states[i][model_kind].canary_version = None
       THEN /\ sharedCall' = SharedCall("promote_canary", i, model_kind,
                                        "canary_not_set")
            /\ UNCHANGED <<persisted_states, persisted_events, instance_states>>
       ELSE /\ sharedCall' = SharedCall("promote_canary", i, model_kind, None)
            /\ SharedUpsert(i, model_kind,
                            PromoteState(instance_states[i][model_kind], SharedNow),
                            "promote_canary")
    /\ UNCHANGED <<jobVars, storeVars, registryVars, callerVars, pairVars, trainVars, expandVars, loopVars, tokenVars, projVars>>

\* rollback_canary through instance i
SharedRollbackCanary(i, model_kind) ==
    /\ Len(persisted_events) < MaxSharedEvents
    /\ sharedCall' = SharedCall("rollback_canary", i, model_kind, None)
    /\ SharedUpsert(i, model_kind,
                    RollbackState(instance_states[i][model_kind], SharedNow),
                    "rollback_canary")
    /\ UNCHANGED <<jobVars, storeVars, registryVars, callerVars, pairVars, trainVars, expandVars, loopVars, tokenVars, projVars>>

\* record_signal through instance i: updated_at of the instance's own state,
\* then upsert_state of that state
SharedRecordSignal(i, model_kind) ==
    /\ Len(persisted_events) < MaxSharedEvents
    /\ sharedCall' = SharedCall("record_signal", i, model_kind, None)
    /\ SharedUpsert(i, model_kind,
                    [instance_states[i][model_kind] EXCEPT !.updated_at = SharedNow],
                    "record_signal")
    /\ UNCHANGED <<jobVars, storeVars, registryVars, callerVars, pairVars, trainVars, expandVars, loopVars, tokenVars, projVars>>

\* select_version through instance i: from the instance's own state
SharedSelectVersion(i, model_kind, tenant_id) ==
    /\ sharedCall' = [op |-> "select_version", instance |-> i,
                      model_kind |-> model_kind, tenant_id |-> tenant_id,
                      error |-> None,
                      result |-> select_version(instance_states[i][model_kind],
                                                model_kind, tenant_id)]
    /\ UNCHANGED <<persisted_states, persisted_events, instance_states>>
    /\ UNCHANGED <<jobVars, storeVars, registryVars, callerVars, pairVars, trainVars, expandVars, loopVars, tokenVars, projVars>>

SharedInit == SharedStart

SharedNext ==
    \/ \E i \in Instances : SharedOpen(i)
    \/ \E i \in Instances, kind \in SharedKinds, version \in CanaryVersions,
          rollout \in SharedRollouts, allowlist \in AllowlistInputs :
          SharedRegisterCanary(i, kind, version, rollout, allowlist)
    \/ \E i \in Instances, kind \in SharedKinds : SharedPromoteCanary(i, kind)
    \/ \E i \in Instances, kind \in SharedKinds : SharedRollbackCanary(i, kind)
    \/ \E i \in Instances, kind \in SharedKinds : SharedRecordSignal(i, kind)
    \/ \E i \in Instances, kind \in SharedKinds, t \in SharedTenants :
          SharedSelectVersion(i, kind, t)

\* ---------------------------------------------------------------------------
\* estimate_tokens on two texts, given by their numbers of words
\* ---------------------------------------------------------------------------
MaxWords == 12
NoEstimates == <<>>

TokenStart ==
    /\ word_counts = <<0, 0>>
    /\ estimates = NoEstimates

\* the two texts: any numbers of words up to MaxWords
TokenInit ==
    /\ word_counts \in (0..MaxWords) \X (0..MaxWords)
    /\ estimates = NoEstimates

\* estimate_tokens is called with each text
EstimateTokens ==
    /\ estimates = NoEstimates
    /\ estimates' = <<tokens_of_words(word_counts[1]), tokens_of_words(word_counts[2])>>
    /\ UNCHANGED <<word_counts, jobVars, storeVars, registryVars, callerVars, pairVars,
                   trainVars, expandVars, loopVars, sharedVars, projVars>>

TokenNext == EstimateTokens

\* ---------------------------------------------------------------------------
\* A graph store on its own: memories of two tenants are projected, each once
\* and in any order, and related and query_candidates are called
\* ---------------------------------------------------------------------------
MaxProjected == 3
ProjIds == 1..MaxProjected
ProjTenants == {"t1", "t2"}
\* texts that share several features (release, can, proceed and two phrases),
\* one feature (release) or none
ProjTexts == {TextLong, TextCan, TextCanNotBang}
\* the arguments of related and query_candidates
ProjSeeds == {<<1>>, <<2, 1>>}
ProjExcludes == {{}, {3}}
ProjLimits == {0, 1}
ProjQueries == {QueryRelease, TextCan}

ProjStart ==
    /\ projMemories = <<>>
    /\ projected = {}
    /\ projCall = NoCall

\* the memories: any tenant and text each; nothing is projected yet
ProjInit ==
    /\ projMemories \in [ProjIds -> [tenant_id : ProjTenants, text : ProjTexts]]
    /\ projected = {}
    /\ projCall = NoCall

\* project_memory(tenant_id, memory_id, text) for a memory not projected before
StoreProject(id) ==
    /\ id \notin projected
    /\ LET g == project_memory([terms |-> terms, edges |-> edges],
                               projMemories[id].tenant_id, id,
                               projMemories[id].text, now)
       IN /\ terms' = g.terms
          /\ edges' = g.edges
    /\ projected' = projected \cup {id}
    /\ projCall' = [op |-> "project_memory", tenant_id |-> projMemories[id].tenant_id,
                    memory_id |-> id, before |-> <<terms, edges>>]
    /\ UNCHANGED <<projMemories, backend, records, idempotency, now, last, keyHistory,
                   forgotten>>
    /\ UNCHANGED <<jobVars, registryVars, callerVars, pairVars, trainVars, expandVars,
                   loopVars, sharedVars, tokenVars>>

\* related(tenant_id, memory_ids, exclude_ids=..., limit=...)
StoreRelated(tenant_id, memory_ids, exclude_ids, limit) ==
    /\ \E result \in related(tenant_id, memory_ids, exclude_ids, limit) :
          projCall' = [op |-> "related", tenant_id |-> tenant_id,
                       memory_ids |-> memory_ids, exclude_ids |-> exclude_ids,
                       limit |-> limit, result |-> result]
    /\ UNCHANGED <<projMemories, projected, storeVars>>
    /\ UNCHANGED <<jobVars, registryVars, callerVars, pairVars, trainVars, expandVars,
                   loopVars, sharedVars, tokenVars>>

\* query_candidates(tenant_id, text, exclude_ids=..., limit=...)
StoreQueryCandidates(tenant_id, text, exclude_ids, limit) ==
    /\ \E result \in query_candidates(tenant_id, text, exclude_ids, limit) :
          projCall' = [op |-> "query_candidates", tenant_id |-> tenant_id,
                       text |-> text, exclude_ids |-> exclude_ids,
                       limit |-> limit, result |-> result]
    /\ UNCHANGED <<projMemories, projected, storeVars>>
    /\ UNCHANGED <<jobVars, registryVars, callerVars, pairVars, trainVars, expandVars,
                   loopVars, sharedVars, tokenVars>>

ProjNext ==
    \/ \E id \in ProjIds : StoreProject(id)
    \/ \E t \in ProjTenants, ids \in ProjSeeds, ex \in ProjExcludes, limit \in ProjLimits :
          StoreRelated(t, ids, ex, limit)
    \/ \E t \in ProjTenants, text \in ProjQueries, ex \in ProjExcludes,
          limit \in ProjLimits :
          StoreQueryCandidates(t, text, ex, limit)

\* the deployment outside the part a specification explores
JobsIdle == JobInit /\ mode = "inprocess" /\ default_max_attempts = 1
StoreIdle == StoreStart /\ backend = "inmemory"
CallersIdle == CallersStart /\ sharing = "threads"
PairIdle == PairStart /\ pairMaxAttempts = 1
TrainIdle == TrainStart
ExpandIdle == max_expansion = MaxExpansion
LoopIdle == LoopStart
SharedIdle == SharedStart
TokenIdle == TokenStart
ProjIdle == ProjStart


Init == JobInit /\ StoreIdle /\ RegistryIdle /\ CallersIdle /\ PairIdle /\ TrainIdle /\ ExpandIdle /\ LoopIdle /\ SharedIdle /\ TokenIdle /\ ProjIdle

Next == JobNext

StoreSpecInit == JobsIdle /\ StoreInit /\ RegistryIdle /\ CallersIdle /\ PairIdle /\ TrainIdle /\ ExpandIdle /\ LoopIdle /\ SharedIdle /\ TokenIdle /\ ProjIdle

StoreSpec == StoreSpecInit /\ [][StoreNext]_vars

RegistrySpecInit == JobsIdle /\ StoreIdle /\ RegistryInit /\ CallersIdle /\ PairIdle /\ TrainIdle /\ ExpandIdle /\ LoopIdle /\ SharedIdle /\ TokenIdle /\ ProjIdle

RegistrySpec == RegistrySpecInit /\ [][RegistryNext]_vars

ConcurrentSpecInit == JobsIdle /\ ConcurrentInit /\ RegistryIdle /\ PairIdle /\ TrainIdle /\ ExpandIdle /\ LoopIdle /\ SharedIdle /\ TokenIdle /\ ProjIdle

ConcurrentSpec == ConcurrentSpecInit /\ [][ConcurrentNext]_vars

PairSpecInit == JobsIdle /\ StoreIdle /\ RegistryIdle /\ CallersIdle /\ PairInit /\ TrainIdle /\ ExpandIdle /\ LoopIdle /\ SharedIdle /\ TokenIdle /\ ProjIdle

PairSpec == PairSpecInit /\ [][PairNext]_vars

ConflictSpecInit ==
    /\ JobsIdle
    /\ ConflictInit
    /\ RegistryIdle
    /\ CallersIdle
    /\ PairIdle
    /\ TrainIdle /\ ExpandIdle /\ LoopIdle /\ SharedIdle /\ TokenIdle /\ ProjIdle

ConflictSpec == ConflictSpecInit /\ [][ConflictNext]_vars

ExpandSpecInit ==
    /\ JobsIdle
    /\ ExpandInit
    /\ RegistryIdle
    /\ CallersIdle
    /\ PairIdle
    /\ TrainIdle /\ LoopIdle /\ SharedIdle /\ TokenIdle /\ ProjIdle

ExpandSpec == ExpandSpecInit /\ [][ExpandNext]_vars

LoopSpecInit ==
    /\ JobInit /\ mode = "inprocess"
    /\ StoreIdle
    /\ RegistryIdle
    /\ CallersIdle
    /\ PairIdle
    /\ TrainIdle /\ ExpandIdle /\ SharedIdle /\ TokenIdle /\ ProjIdle
    /\ LoopInit

\* the worker thread keeps running while the process lives
LoopSpec == LoopSpecInit /\ [][LoopNext]_vars /\ WF_vars(LoopThread)

SharedSpecInit ==
    JobsIdle /\ StoreIdle /\ RegistryIdle /\ CallersIdle /\ PairIdle /\ TrainIdle
        /\ ExpandIdle /\ LoopIdle /\ SharedInit /\ TokenIdle /\ ProjIdle

SharedSpec == SharedSpecInit /\ [][SharedNext]_vars

TokenSpecInit ==
    JobsIdle /\ StoreIdle /\ RegistryIdle /\ CallersIdle /\ PairIdle /\ TrainIdle
        /\ ExpandIdle /\ LoopIdle /\ SharedIdle /\ TokenInit /\ ProjIdle

TokenSpec == TokenSpecInit /\ [][TokenNext]_vars

ProjSpecInit ==
    JobsIdle /\ StoreIdle /\ RegistryIdle /\ CallersIdle /\ PairIdle /\ TrainIdle
        /\ ExpandIdle /\ LoopIdle /\ SharedIdle /\ TokenIdle /\ ProjInit

ProjSpec == ProjSpecInit /\ [][ProjNext]_vars

TrainSpecInit ==
    /\ JobInit
    /\ StoreIdle
    /\ RegistryInit
    /\ CallersIdle
    /\ PairIdle
    /\ TrainInit
    /\ ExpandIdle /\ LoopIdle /\ SharedIdle /\ TokenIdle /\ ProjIdle

TrainSpec == TrainSpecInit /\ [][TrainNext]_vars

Spec == Init /\ [][Next]_vars

\* Live workers keep polling and finish what they execute (a writer that finds
\* the database locked waits and retries; pollers sleep between empty polls);
\* nothing forces a crash.
FairSpec == Spec /\ \A w \in Workers : SF_vars(WorkerStep(w))

\* ------------------------------------------------------------------------
\* Properties of the job manager
\* ------------------------------------------------------------------------

Terminal(j) == jobs[j].status \in {"completed", "failed"}

\* C1: durable queue, any number of workers in any interleaving: a claim hands
\* a job to at most one worker (no two workers hold the same job, the holder's
\* row is running and carries the attempt number the claim gave it), and every
\* successful claim increments attempts exactly once (the attempt numbers handed
\* out for a job are 1, 2, ..., attempts: no number twice, none skipped).
ClaimAtMostOneWorker ==
    mode = "sqlite" =>
        /\ \A w1, w2 \in Workers :
              (w1 # w2 /\ wpc[w1] = "executing" /\ wpc[w2] = "executing")
                  => wjob[w1].job_id # wjob[w2].job_id
        /\ \A w \in Workers :
              wpc[w] = "executing" =>
                  /\ jobs[wjob[w].job_id].status = "running"
                  /\ jobs[wjob[w].job_id].attempts = wjob[w].attempts
        /\ \A j \in DOMAIN jobs :
              /\ Len(grants[j]) = jobs[j].attempts
              /\ \A i \in DOMAIN grants[j] : grants[j][i] = i

\* two workers hold claimed jobs at once, one of them on a second attempt
ClaimRaceWitness ==
    /\ mode = "sqlite"
    /\ \E w1, w2 \in Workers :
          /\ w1 # w2
          /\ wpc[w1] = "executing" /\ wpc[w2] = "executing"
          /\ wjob[w1].attempts = 2

\* C2: both modes, executions that raise or return (no holder died): a job
\* completed after k raises has attempts = k + 1 with k < max_attempts; a job
\* that raised max_attempts times is failed with attempts = max_attempts and is
\* returned by list_dead_letters for its tenant; no job raises more often.
RetriesThenCompletedOrDeadLetter ==
    \A j \in DOMAIN jobs :
        crashed[j] = 0 =>
            /\ raised[j] <= jobs[j].max_attempts
            /\ jobs[j].status = "completed" =>
                  /\ jobs[j].attempts = raised[j] + 1
                  /\ raised[j] < jobs[j].max_attempts
            /\ raised[j] >= jobs[j].max_attempts <=> jobs[j].status = "failed"
            /\ jobs[j].status = "failed" =>
                  /\ jobs[j].attempts = jobs[j].max_attempts
                  /\ j \in Range(ListDeadLetters(jobs[j].tenant_id, DefaultDeadLetterLimit))
            /\ (raised[j] < jobs[j].max_attempts /\ jobs[j].result = "ok")
                  => jobs[j].status = "completed"

\* one job completed after a raise, another dead-lettered after two raises
RetryWitness ==
    \E j, k \in DOMAIN jobs :
        /\ crashed[j] = 0 /\ jobs[j].status = "completed" /\ raised[j] = 1
        /\ crashed[k] = 0 /\ jobs[k].status = "failed" /\ raised[k] = 2
        /\ k \in Range(ListDeadLetters(jobs[k].tenant_id, DefaultDeadLetterLimit))

\* C8: either mode, any interleaving, crashes included: attempts never exceeds
\* max_attempts, and a failed job has attempts = max_attempts.
AttemptsBounded ==
    \A j \in DOMAIN jobs :
        /\ jobs[j].attempts <= jobs[j].max_attempts
        /\ jobs[j].status = "failed" => jobs[j].attempts = jobs[j].max_attempts

\* a job on its last attempt is running while another has already failed
AttemptsBoundedWitness ==
    \E j, k \in DOMAIN jobs :
        /\ jobs[j].status = "running" /\ jobs[j].attempts = jobs[j].max_attempts
        /\ jobs[j].max_attempts = 2
        /\ jobs[k].status = "failed"

\* C9: durable queue, live workers keep polling: every submitted job eventually
\* reaches completed or failed, also when a holder died after claiming it.
EveryJobEventuallyTerminal ==
    \A j \in JobIds : (j \in DOMAIN jobs) ~> (j \in DOMAIN jobs /\ Terminal(j))

\* what the code does give: a job whose holders all survive reaches a terminal
\* status; one whose holder died is never claimed again.
SurvivingJobEventuallyTerminal ==
    \A j \in JobIds :
        (j \in DOMAIN jobs) ~> (j \in DOMAIN jobs /\ (Terminal(j) \/ crashed[j] > 0))

\* a row left running by a dead holder stays running, attempts unchanged
OrphanStaysRunning ==
    [][\A j \in DOMAIN jobs :
          (crashed[j] > 0) => (jobs'[j] = jobs[j] /\ jobs[j].status = "running")]_vars

\* the limits list_dead_letters is asked with
DeadLetterLimits == {-1, 0, 1, 2, DefaultDeadLetterLimit}

FailedJobs(tenant) ==
    {j \in DOMAIN jobs : jobs[j].tenant_id = tenant /\ jobs[j].status = "failed"}

\* C17: list_dead_letters(tenant, limit) returns the failed jobs of the tenant
\* and nothing else (no queued, running or completed job, no job of another
\* tenant), each once, newest finished first, truncated to max(1, limit) so
\* that the newest are kept; in in-process mode the dead-letter list holds a
\* job id if and only if that job's status is failed.
DeadLetterViewExact ==
    /\ \A tenant \in Tenants, limit \in DeadLetterLimits :
         LET view == ListDeadLetters(tenant, limit)
             failed == FailedJobs(tenant)
             bounded == Max(1, limit)
         IN /\ Range(view) \subseteq failed
            /\ Len(view) = Min(bounded, Cardinality(failed))
            /\ Cardinality(Range(view)) = Len(view)
            /\ \A i, k \in DOMAIN view :
                  i < k => jobs[view[i]].finished_at >= jobs[view[k]].finished_at
            /\ \A j \in failed \ Range(view), i \in DOMAIN view :
                  jobs[view[i]].finished_at >= jobs[j].finished_at
    /\ mode = "inprocess" =>
         /\ Range(dead_letters) = {j \in DOMAIN jobs : jobs[j].status = "failed"}
         /\ Cardinality(Range(dead_letters)) = Len(dead_letters)

\* two jobs of one tenant failed one after the other: the view with limit 1
\* holds the later one only, the full view holds it first
DeadLetterViewWitness ==
    \E tenant \in Tenants :
        /\ Cardinality(FailedJobs(tenant)) = 2
        /\ Len(ListDeadLetters(tenant, 1)) = 1
        /\ Len(ListDeadLetters(tenant, DefaultDeadLetterLimit)) = 2
        /\ ListDeadLetters(tenant, DefaultDeadLetterLimit)[1] = 2

\* C18: durable mode, any interleaving of submitters and workers: of two jobs
\* of the same tenant (and kind), the one created earlier is claimed for its
\* first attempt before the one created later, that is, whenever the later
\* one has been claimed the earlier one has been claimed too.
ClaimedInCreationOrder ==
    mode = "sqlite" =>
        \A j, k \in DOMAIN jobs :
            (/\ jobs[j].tenant_id = jobs[k].tenant_id
             /\ jobs[j].created_at < jobs[k].created_at
             /\ grants[k] # <<>>)
                => grants[j] # <<>>

\* the first half of the claim: the row a claim has selected is the queued row
\* with the earliest created_at among all queued rows
ClaimSelectsEarliestQueued ==
    mode = "sqlite" =>
        \A w \in Workers :
            wpc[w] = "claim_update" =>
                /\ wjob[w].job_id \in QueuedRows
                /\ \A k \in QueuedRows :
                      jobs[wjob[w].job_id].created_at <= jobs[k].created_at

\* a claim chose between two queued rows
ClaimSelectsEarliestQueuedWitness ==
    /\ mode = "sqlite"
    /\ \E w \in Workers : wpc[w] = "claim_update"
    /\ Cardinality(QueuedRows) = 2

\* the two managers show the same jobs with the same status and attempts
SameStatusAndAttempts ==
    /\ Len(pairJobs["inprocess"]) = Len(pairJobs["sqlite"])
    /\ \A j \in DOMAIN pairJobs["inprocess"] :
          /\ pairJobs["inprocess"][j].status = pairJobs["sqlite"][j].status
          /\ pairJobs["inprocess"][j].attempts = pairJobs["sqlite"][j].attempts

\* C19: driven by the same sequence of submit_* and process_next calls with
\* the same outcome of each execution, the in-process queue and the durable
\* queue execute the same job at each process_next and leave every job with
\* the same status and attempts, a failed job re-queued while other jobs are
\* waiting included.
QueueModesEquivalent ==
    /\ pairExecuted["inprocess"] = pairExecuted["sqlite"]
    /\ SameStatusAndAttempts

\* the same as long as no execution was retried (max_attempts = 1)
QueueModesEquivalentNoRetry ==
    pairMaxAttempts = 1 => QueueModesEquivalent

\* without retries both managers executed the second of two waiting jobs
QueueModesEquivalentNoRetryWitness ==
    /\ pairMaxAttempts = 1
    /\ pairExecuted["inprocess"] = 2
    /\ pairExecuted["sqlite"] = 2
    /\ pairJobs["sqlite"][1].status = "failed"

\* ------------------------------------------------------------------------
\* Properties of the job record's status and fields
\* ------------------------------------------------------------------------
StatusSteps ==
    {<<"queued", "running">>, <<"running", "completed">>,
     <<"running", "queued">>, <<"running", "failed">>}

\* C29: a job's status changes only along queued->running,
\* running->completed, running->queued (retry) or running->failed; once a
\* job is completed or failed, no step of any submitter or worker changes
\* its status, attempts, result or error.
StatusFollowsLifecycle ==
    [][\A j \in DOMAIN jobs :
          /\ j \in DOMAIN jobs'
          /\ jobs'[j].status # jobs[j].status
                => <<jobs[j].status, jobs'[j].status>> \in StatusSteps
          /\ Terminal(j) =>
                /\ jobs'[j].status = jobs[j].status
                /\ jobs'[j].attempts = jobs[j].attempts
                /\ jobs'[j].result = jobs[j].result
                /\ jobs'[j].error = jobs[j].error]_vars

\* a job that was retried and then completed, and a job submitted after it
\* finished that a worker is executing or has finished
StatusFollowsLifecycleWitness ==
    \E j \in DOMAIN jobs, k \in DOMAIN jobs :
        /\ jobs[j].status = "completed"
        /\ jobs[j].attempts = 2
        /\ jobs[k].created_at > jobs[j].finished_at
        /\ jobs[k].status \in {"running", "failed"}

\* C30: in either queue mode the fields of a job agree with its status:
\* finished_at is set exactly when the status is completed or failed; a
\* completed job has a result and no error; a failed job has an error and no
\* result; a job queued again for a retry has no finished_at and the error of
\* its last failure; a queued job with attempts = 0 has no started_at, result
\* or error.
FieldsAgreeWithStatus ==
    \A j \in DOMAIN jobs :
        LET job == jobs[j]
        IN /\ job.finished_at # NoTime <=> job.status \in {"completed", "failed"}
           /\ job.status = "completed" => job.result # None /\ job.error = None
           /\ job.status = "failed" => job.error # None /\ job.result = None
           /\ (job.status = "queued" /\ job.attempts > 0)
                 => job.finished_at = NoTime /\ job.error # None
           /\ (job.status = "queued" /\ job.attempts = 0)
                 => ~job.started /\ job.result = None /\ job.error = None

\* a job completed on its second attempt next to a job that failed or waits
\* for its retry
FieldsAgreeWithStatusWitness ==
    \E j \in DOMAIN jobs, k \in DOMAIN jobs :
        /\ jobs[j].status = "completed" /\ raised[j] > 0
        /\ \/ jobs[k].status = "failed"
           \/ jobs[k].status = "queued" /\ jobs[k].attempts > 0

\* ------------------------------------------------------------------------
\* Properties of the memory repository
\* ------------------------------------------------------------------------

LastIsRecall == last.op \in {"recall", "graph_recall"}

Expired(record) == record.expires_at # NoTime /\ record.expires_at <= now

RECURSIVE SumTokens(_)
SumTokens(items) ==
    IF items = <<>> THEN 0
    ELSE estimate_tokens(records[Head(items)].text) + SumTokens(Tail(items))

\* What the claim on idempotent remembers says of the calls made with key k.
KeyIsIdempotent(k) ==
    /\ keyHistory[k].written = keyHistory[k].items
    /\ (last.op = "remember" /\ <<last.payload.tenant_id, last.payload.idempotency_key>> = k)
        => /\ last.memory_ids = keyHistory[k].memory_ids
           /\ keyHistory[k].calls > 1 => last.warnings = <<"idempotency_replay">>

\* C3: for every tenant and every idempotency key a remember call carried, each
\* repetition returned the memory ids of the first call with exactly one
\* "idempotency_replay" warning, and the calls with that key wrote len(items)
\* records in total, once.
IdempotentRemember ==
    \A k \in DOMAIN keyHistory : KeyIsIdempotent(k)

\* the same for the keys the code takes as keys (non-empty strings)
IdempotentRememberNonEmptyKey ==
    \A k \in DOMAIN keyHistory : k[2] # "" => KeyIsIdempotent(k)

NonEmptyKeyReplayedTwice ==
    /\ last.op = "remember"
    /\ last.payload.idempotency_key = "k1"
    /\ keyHistory[<<last.payload.tenant_id, "k1">>].calls = MaxCalls
    /\ Len(last.payload.items) # keyHistory[<<last.payload.tenant_id, "k1">>].items

\* C4: a private memory written by agent A is neither observed nor modified by
\* a call made as another agent B of the same tenant: inspect finds nothing
\* under any requested scope, recall (repository and graph-augmented) does not
\* return it, forget returns deleted=false and leaves its tombstone flag as it
\* was.
PrivateIsolation ==
    \A id \in DOMAIN records :
        records[id].scope = "private" =>
            /\ (/\ last.op = "inspect"
                /\ last.memory_id = id
                /\ last.tenant_id = records[id].tenant_id
                /\ last.agent_id # records[id].agent_id)
                => last.found = NotFound
            /\ (/\ LastIsRecall
                /\ last.payload.tenant_id = records[id].tenant_id
                /\ last.payload.agent_id # records[id].agent_id)
                => id \notin Range(last.items)
            /\ (/\ last.op = "forget"
                /\ last.memory_id = id
                /\ last.tenant_id = records[id].tenant_id
                /\ last.agent_id # records[id].agent_id)
                => /\ ~last.deleted
                   /\ records[id].tombstoned = last.was_tombstoned

\* a graph-augmented recall by another agent expanded from a seed towards a
\* live private memory and returned without it
PrivateIsolationWitness ==
    /\ last.op = "graph_recall"
    /\ last.items # <<>>
    /\ \E id \in DOMAIN records :
          /\ records[id].scope = "private"
          /\ ~records[id].tombstoned
          /\ ~Expired(records[id])
          /\ records[id].tenant_id = last.payload.tenant_id
          /\ records[id].agent_id # last.payload.agent_id
          /\ \E k \in DOMAIN edges : /\ k[1] = last.payload.tenant_id
                                     /\ k[2] \in Range(last.items)
                                     /\ k[3] = id
          /\ id \notin Range(last.items)

\* C5: every item a repository recall returns belongs to the request's tenant,
\* is not tombstoned, has no expires_at <= now, is visible to the request's
\* agent and scope, has trust_score >= trust_min and, when filters.types is
\* given, a type in it.
RecallReturnsOnlyEligible ==
    last.op = "recall" =>
        \A id \in Range(last.items) :
            /\ records[id].tenant_id = last.payload.tenant_id
            /\ ~records[id].tombstoned
            /\ ~Expired(records[id])
            /\ \/ records[id].scope = "global"
               \/ records[id].scope = "team" /\ last.payload.scope \in {"team", "global"}
               \/ records[id].scope = "private" /\ records[id].agent_id = last.payload.agent_id
            /\ trust_score(records[id].trust_level) >= last.payload.trust_min
            /\ last.payload.types # NoTypes => records[id].type \in last.payload.types

\* the same, a types filter being one that names at least one type
RecallReturnsOnlyEligibleNonEmptyTypes ==
    (last.op = "recall" /\ last.payload.types # {}) => RecallReturnsOnlyEligible

\* C6: every repository recall response has at most max_items items, and its
\* composed_tokens_estimate is the sum of estimate_tokens over the returned
\* texts and is at most max_tokens.
RecallWithinBudget ==
    last.op = "recall" =>
        /\ Len(last.items) <= last.payload.max_items
        /\ last.composed_tokens_estimate = SumTokens(last.items)
        /\ last.composed_tokens_estimate <= last.payload.max_tokens

\* the packing loop skipped a candidate that did not fit and took a later one
RecallWithinBudgetWitness ==
    /\ last.op = "recall"
    /\ last.payload.max_items = 2
    /\ Len(last.items) = 1
    /\ \E id \in DOMAIN records :
          /\ id \notin Range(last.items)
          /\ id \in Range(IF backend = "inmemory" THEN InMemoryCandidates(last.payload)
                          ELSE SqliteCandidates(last.payload))
          /\ recall_score(last.payload.query, records[id], now)
                 > recall_score(last.payload.query, records[last.items[1]], now)
          /\ estimate_tokens(records[id].text) > last.payload.max_tokens

\* C7: a record for which forget returned deleted=true is tombstoned from then
\* on: inspect finds nothing, no recall (repository or graph-augmented) returns
\* it, and forget never returns deleted=true for it again.
ForgottenStaysForgotten ==
    \A id \in MemoryIds :
        forgotten[id] >= 1 =>
            /\ id \in DOMAIN records
            /\ records[id].tombstoned
            /\ forgotten[id] = 1
            /\ (last.op = "inspect" /\ last.memory_id = id) => last.found = NotFound
            /\ LastIsRecall => id \notin Range(last.items)
            /\ (last.op = "forget" /\ last.memory_id = id /\ last.was_tombstoned)
                => ~last.deleted

\* the author repeats the forget of a memory already forgotten
ForgottenStaysForgottenWitness ==
    \E id \in DOMAIN records :
        /\ forgotten[id] = 1
        /\ last.op = "forget"
        /\ last.memory_id = id
        /\ last.tenant_id = records[id].tenant_id
        /\ last.agent_id = records[id].agent_id
        /\ last.was_tombstoned
        /\ ~last.deleted

\* ------------------------------------------------------------------------
\* Properties of the model registry
\* ------------------------------------------------------------------------

\* C10: select_version(kind, tenant) returns (active, "active") without a
\* canary; else (canary, "canary_allowlist") for a tenant on the allowlist,
\* whatever the rollout percentage; else (active, "active") when
\* rollout_percent <= 0; else (canary, "canary_percent") when the tenant's
\* bucket is below rollout_percent; else (active, "active"); and it leaves
\* the registry's states, events and signals as they were.
SelectVersionOrder ==
    (selected.op = "select_version" /\ selected.model_kind \in ModelKinds) =>
        LET state == registry_states[selected.model_kind]
            tenant == selected.tenant_id
            active == <<state.active_version, "active">>
            noCanary == state.canary_version = None
            listed == tenant \in state.tenant_allowlist
            bucket == stable_bucket(selected.model_kind, tenant)
        IN /\ noCanary => selected.result = active
           /\ (~noCanary /\ listed)
               => selected.result = <<state.canary_version, "canary_allowlist">>
           /\ (~noCanary /\ ~listed /\ state.rollout_percent <= 0)
               => selected.result = active
           /\ (~noCanary /\ ~listed /\ state.rollout_percent > 0
                   /\ bucket < state.rollout_percent)
               => selected.result = <<state.canary_version, "canary_percent">>
           /\ (~noCanary /\ ~listed /\ state.rollout_percent > 0
                   /\ bucket >= state.rollout_percent)
               => selected.result = active
           /\ selected.before = <<registry_states, registry_events, registry_signals>>

\* a tenant on the allowlist of a canary registered with rollout 0 got the canary
SelectVersionOrderWitness ==
    /\ selected.op = "select_version"
    /\ selected.model_kind \in ModelKinds
    /\ registry_states[selected.model_kind].canary_version = CanaryVersion
    /\ registry_states[selected.model_kind].rollout_percent = 0
    /\ selected.tenant_id \in registry_states[selected.model_kind].tenant_allowlist
    /\ selected.result = <<CanaryVersion, "canary_allowlist">>

\* C11: after a promote_canary that returned, the kind's active_version is
\* the canary_version the state held when the call started, canary_version is
\* none, rollout_percent is 0 and the allowlist is empty, and select_version
\* on that state answers (new active, "active") for every tenant, those that
\* were on the allowlist or inside the rollout percentage included.
PromoteActivatesCanary ==
    (selected.op = "promote_canary" /\ selected.error = None) =>
        LET kind == selected.model_kind
            prior == selected.before[1][kind]
            state == registry_states[kind]
        IN /\ prior.canary_version # None
           /\ state.active_version = prior.canary_version
           /\ state.canary_version = None
           /\ state.rollout_percent = 0
           /\ state.tenant_allowlist = {}
           /\ \A t \in Tenants :
                 select_version(state, kind, t) = <<prior.canary_version, "active">>

\* a canary with an allowlisted tenant and a tenant inside the percentage was
\* promoted over a different active version
PromoteActivatesCanaryWitness ==
    /\ selected.op = "promote_canary"
    /\ selected.error = None
    /\ LET prior == selected.before[1][selected.model_kind]
       IN /\ prior.tenant_allowlist # {}
          /\ prior.canary_version # prior.active_version
          /\ \E t \in Tenants :
                select_version(prior, selected.model_kind, t)[2] = "canary_percent"

\* the route select_version answers for a tenant when the kind's state carries
\* rollout percentage p and is otherwise unchanged
RouteAt(state, model_kind, tenant_id, p) ==
    select_version([state EXCEPT !.rollout_percent = p], model_kind, tenant_id)[2]

\* C12: for a kind with a canary and a tenant that is not on the allowlist, a
\* select_version that answered the canary at the state's rollout_percent p
\* answers the canary at every p' >= p up to 100, one that answered active
\* answers active at every smaller percentage, raising the percentage by one
\* never moves a tenant from the canary back to active, at 100 the tenant gets
\* the canary and at 0 it gets the active version.
RolloutMonotone ==
    (/\ selected.op = "select_version"
     /\ selected.model_kind \in ModelKinds
     /\ registry_states[selected.model_kind].canary_version # None
     /\ selected.tenant_id \notin registry_states[selected.model_kind].tenant_allowlist) =>
        LET kind == selected.model_kind
            state == registry_states[kind]
            tenant == selected.tenant_id
            p == state.rollout_percent
        IN /\ selected.result[2] = "canary_percent" =>
                 \A q \in p..100 : RouteAt(state, kind, tenant, q) = "canary_percent"
           /\ selected.result[2] = "active" =>
                 \A q \in 0..p : RouteAt(state, kind, tenant, q) = "active"
           /\ \A q \in 0..99 :
                 RouteAt(state, kind, tenant, q) = "canary_percent"
                     => RouteAt(state, kind, tenant, q + 1) = "canary_percent"
           /\ RouteAt(state, kind, tenant, 100) = "canary_percent"
           /\ RouteAt(state, kind, tenant, 0) = "active"

\* at a rollout strictly between 0 and 100 a tenant was routed to the canary by
\* its bucket while another tenant of the same kind stays on the active version
RolloutMonotoneWitness ==
    /\ selected.op = "select_version"
    /\ selected.model_kind \in ModelKinds
    /\ selected.result[2] = "canary_percent"
    /\ registry_states[selected.model_kind].rollout_percent \in 1..99
    /\ \E t \in RolloutTenants :
          select_version(registry_states[selected.model_kind],
                         selected.model_kind, t)[2] = "active"

MutatingOps == {"register_canary", "promote_canary", "rollback_canary",
                "record_signal"}

RegistryOps == MutatingOps \cup {"select_version", "get_state", "history"}

\* the ValueError the last registry call raised, None when it returned
RaisedError ==
    IF selected.op = "select_version"
    THEN IF selected.result[1] = None THEN selected.result[2] ELSE None
    ELSE selected.error

OutOfRangeRegister ==
    selected.op = "register_canary" /\ selected.rollout_percent \notin 0..100

RegistryAsBefore ==
    <<registry_states, registry_events, registry_signals>> = selected.before

RolloutPercentInRange ==
    \A kind \in DOMAIN registry_states :
        registry_states[kind].rollout_percent \in 0..100

\* the first two rules, the untouched registry and the range, common to the
\* statement and its amendment
RuleViolationsCommon ==
    /\ RolloutPercentInRange
    /\ selected.op \in RegistryOps =>
          /\ OutOfRangeRegister => RaisedError = "rollout_percent_out_of_range"
          /\ (/\ selected.op = "promote_canary"
              /\ selected.model_kind \in ModelKinds
              /\ selected.before[1][selected.model_kind].canary_version = None)
                => RaisedError = "canary_not_set"
          /\ RaisedError # None => RegistryAsBefore

\* C20 (as stated): a register_canary with rollout_percent outside 0..100
\* raises rollout_percent_out_of_range, a promote_canary with no canary raises
\* canary_not_set, every registry call for a kind other than reranker and
\* salience raises unsupported_model_kind, a call that raised left states,
\* events and signals as they were, and rollout_percent is within 0..100 in
\* every reachable state.
RuleViolationsAsStated ==
    /\ RuleViolationsCommon
    /\ (selected.op \in RegistryOps /\ selected.model_kind \notin ModelKinds)
          => RaisedError = "unsupported_model_kind"

\* C20 (amended): as above, except that register_canary tests the range of
\* rollout_percent before it looks the kind up: a call for an unsupported kind
\* raises unsupported_model_kind unless it is a register_canary with
\* rollout_percent outside 0..100, which raises rollout_percent_out_of_range.
RuleViolationsLeaveRegistryUntouched ==
    /\ RuleViolationsCommon
    /\ (/\ selected.op \in RegistryOps
        /\ selected.model_kind \notin ModelKinds
        /\ ~OutOfRangeRegister)
          => RaisedError = "unsupported_model_kind"

\* a register_canary for an unsupported kind with rollout_percent out of range
\* was refused for the range, on a registry that holds an audit event
RuleViolationsWitness ==
    /\ OutOfRangeRegister
    /\ selected.model_kind = UnsupportedKind
    /\ selected.error = "rollout_percent_out_of_range"
    /\ registry_events # <<>>
    /\ RegistryAsBefore

\* the fields of a ModelState other than updated_at
StateContent(state) ==
    [active_version |-> state.active_version,
     canary_version |-> state.canary_version,
     rollout_percent |-> state.rollout_percent,
     tenant_allowlist |-> state.tenant_allowlist,
     metadata |-> state.metadata]

RollbackReturned ==
    selected.op = "rollback_canary" /\ selected.error = None

\* what a rollback_canary that returned leaves, and that it changes none of
\* the five fields when no canary was set
RollbackClears ==
    RollbackReturned =>
        LET kind == selected.model_kind
            prior == selected.before[1][kind]
            state == registry_states[kind]
        IN /\ state.canary_version = None
           /\ state.rollout_percent = 0
           /\ state.tenant_allowlist = {}
           /\ state.active_version = prior.active_version
           /\ prior.canary_version = None => StateContent(state) = StateContent(prior)

\* C21 (as stated): rollback_canary leaves canary_version none,
\* rollout_percent 0, the allowlist empty and active_version unchanged; when
\* no canary was set it changes none of active_version, canary_version,
\* rollout_percent, tenant_allowlist and metadata; and a second rollback_canary
\* gives the same model state as the first.
RollbackTwiceSameState ==
    /\ RollbackClears
    /\ RollbackReturned =>
          LET state == registry_states[selected.model_kind]
          IN RollbackState(state, RegistryNow) = state

\* C21 (amended): as above, where the second rollback_canary gives the same
\* model state as the first in every field but updated_at, which it sets
\* again.
RollbackIdempotent ==
    /\ RollbackClears
    /\ RollbackReturned =>
          LET state == registry_states[selected.model_kind]
              again == RollbackState(state, RegistryNow)
          IN StateContent(again) = StateContent(state)

\* a canary with metadata and an allowlist was rolled back, then rolled back
\* again
RollbackIdempotentWitness ==
    /\ RollbackReturned
    /\ Len(registry_events) = 3
    /\ registry_events[2] = RegistryEvent(selected.model_kind, "rollback_canary")
    /\ registry_events[1] = RegistryEvent(selected.model_kind, "register_canary")
    /\ selected.before[1][selected.model_kind].canary_version = None
    /\ registry_states[selected.model_kind].metadata # EmptyMetadata

\* the last registry call appended its own audit event, or none
AuditEventOfLastCall ==
    selected.op \in RegistryOps =>
        IF selected.op \in MutatingOps /\ RaisedError = None
        THEN registry_events =
                 Append(selected.before[2],
                        RegistryEvent(selected.model_kind, selected.op))
        ELSE registry_events = selected.before[2]

\* a step leaves the events as they are or adds one at the end
AuditLogGrows ==
    \/ registry_events' = registry_events
    \/ /\ Len(registry_events') = Len(registry_events) + 1
       /\ SubSeq(registry_events', 1, Len(registry_events)) = registry_events

\* C22: every register_canary, promote_canary, rollback_canary and
\* record_signal that returned appended exactly one audit event of its own
\* kind for its model kind; select_version, get_state and history, and calls
\* that raised, appended none; and no step modifies or removes an event that
\* was appended.
AuditTrailAppendOnly ==
    []AuditEventOfLastCall /\ [][AuditLogGrows]_vars

\* a rollback_canary with no canary set appended the third event of the log
AuditTrailAppendOnlyWitness ==
    /\ RollbackReturned
    /\ selected.before[1][selected.model_kind].canary_version = None
    /\ Len(registry_events) = 3
    /\ registry_events[3] = RegistryEvent(selected.model_kind, "rollback_canary")
    /\ registry_events[1].event_kind = "record_signal"

\* ------------------------------------------------------------------------
\* Properties of the graph projection
\* ------------------------------------------------------------------------
MirrorEdge(k) == <<k[1], k[3], k[2], k[4]>>

\* related([a]) without exclusions and without a cut can return b
CanRelate(tenant_id, a, b) ==
    \E r \in related(tenant_id, <<a>>, {}, MaxRecords) : b \in Range(r)

\* C23: after any sequence of projections every edge (tenant, a, b, relation)
\* has its mirror (tenant, b, a, relation) with the same weight, no edge
\* links a memory to itself, and related([a]) without a cut returns b exactly
\* when related([b]) returns a.
EdgesSymmetric ==
    /\ \A k \in DOMAIN edges :
          /\ k[2] # k[3]
          /\ MirrorEdge(k) \in DOMAIN edges
          /\ edges[MirrorEdge(k)].weight = edges[k].weight
    /\ \A t \in Tenants : \A a, b \in DOMAIN records :
          CanRelate(t, a, b) <=> CanRelate(t, b, a)

\* an edge was upserted again at a later time than it was created, and each
\* end can be related from the other
EdgesSymmetricWitness ==
    \E k \in DOMAIN edges :
        /\ edges[k].weight > 2
        /\ edges[k].updated_at = MaxTime
        /\ CanRelate(k[1], k[2], k[3])
        /\ CanRelate(k[1], k[3], k[2])

\* C24: a graph-augmented recall returns at most max_items items and reports
\* as composed_tokens_estimate the sum of estimate_tokens(item.text) over the
\* items it returns, base and appended, which is at most max_tokens.
GraphRecallWithinBudget ==
    last.op = "graph_recall" =>
        /\ Len(last.items) <= last.payload.max_items
        /\ last.composed_tokens_estimate = SumTokens(last.items)
        /\ last.composed_tokens_estimate <= last.payload.max_tokens

\* what the append loop does keep: the number of items, and the total it
\* reports, within the budget
GraphRecallWithinReportedBudget ==
    last.op = "graph_recall" =>
        /\ Len(last.items) <= last.payload.max_items
        /\ last.composed_tokens_estimate <= last.payload.max_tokens

\* the last call was a remember that returned the recorded response of its key
LastIsReplay ==
    /\ last.op = "remember"
    /\ "idempotency_replay" \in Range(last.warnings)

\* C25: a remember that is an idempotency replay, followed by the handler's
\* projection of the returned memory ids, creates no memory record and leaves
\* every graph term entry and every edge weight as it was.
ReplayHasNoSideEffects ==
    (LastIsReplay /\ last.project) =>
        /\ records = last.before.records
        /\ terms = last.before.terms
        /\ DOMAIN edges = DOMAIN last.before.edges
        /\ \A k \in DOMAIN edges : edges[k].weight = last.before.edges[k].weight

\* a replay writes no memory record, and the repository's replay alone leaves
\* the graph as it was
ReplayWritesNoRecord ==
    LastIsReplay =>
        /\ records = last.before.records
        /\ ~last.project => (terms = last.before.terms /\ edges = last.before.edges)

\* ------------------------------------------------------------------------
\* The two repository classes on the same stored records
\* ------------------------------------------------------------------------
RecallSelectsSame(payload) ==
    /\ Range(InMemoryCandidates(payload)) = Range(SqliteCandidates(payload))
    /\ pack_recall(payload, InMemoryCandidates(payload)).items
           = pack_recall(payload, SqliteCandidates(payload)).items

OthersAnswerSame ==
    /\ \A p \in Principals, sc \in Scopes, id \in MemoryIds :
          InspectOn("inmemory", p[1], p[2], sc, id) = InspectOn("sqlite", p[1], p[2], sc, id)
    /\ \A p \in Principals, id \in MemoryIds :
          ForgetDeletesOn("inmemory", p[1], p[2], id)
              = ForgetDeletesOn("sqlite", p[1], p[2], id)

PurgeSelectsSame ==
    \A t \in Tenants, grace \in GraceInputs :
        PurgeTargetsOn("inmemory", t, grace) = PurgeTargetsOn("sqlite", t, grace)

\* C26: on the records left by the same sequence of remember, forget and
\* purge_expired calls, InMemoryRepository and SQLiteRepository select the
\* same records for every recall and inspect request (every scope, trust_min
\* and types filter, the empty types list included), and forget and
\* purge_expired return the same results.
BackendsInterchangeable ==
    /\ \A payload \in RecallRequests : RecallSelectsSame(payload)
    /\ OthersAnswerSame
    /\ PurgeSelectsSame

\* the two classes agree on recall unless the types list is empty, on inspect
\* and forget always, and on purge_expired while every stored expires_at was
\* written in UTC
BackendsAgreeElsewhere ==
    /\ \A payload \in RecallRequests :
          payload.types # {} => RecallSelectsSame(payload)
    /\ OthersAnswerSame
    /\ (\A id \in DOMAIN records : records[id].expires_offset = 0) => PurgeSelectsSame

\* ------------------------------------------------------------------------
\* Properties of the expansion of the augmented recall
\* ------------------------------------------------------------------------
\* the items the augmented recall appended to the base result
Appended == SubSeq(last.items, Len(last.base) + 1, Len(last.items))

InSeeds(id) == id \in Range(last.query_seed_candidates)

\* the candidate order: ids both query seeds and edge-related, then the
\* remaining edge-related ids, then the remaining query seeds
OverlapFirst ==
    LET exclude_ids == Range(last.base)
        both == AppendNew(<<>>, SelectSeq(last.related_ids, InSeeds), exclude_ids)
        edge == AppendNew(both, last.related_ids, exclude_ids)
    IN AppendNew(edge, last.query_seed_candidates, exclude_ids)

\* C31: the augmented recall appends its candidates in the order: ids that
\* are both query seeds and edge-related, then the remaining edge-related
\* ids, then the remaining query seeds.
ExpansionPrefersOverlap ==
    last.op = "graph_recall" =>
        last.items = ExpandLoop(last.payload, OverlapFirst, 1, last.base,
                                SumTokens(last.base)).items

\* what the merge does keep: every appended item is a candidate, none twice,
\* none of the base result
ExpansionAppendsCandidates ==
    last.op = "graph_recall" =>
        /\ SubSeq(last.items, 1, Len(last.base)) = last.base
        /\ Range(Appended) \subseteq
              (Range(last.related_ids) \cup Range(last.query_seed_candidates))
                  \ Range(last.base)
        /\ \A i, j \in DOMAIN Appended : i # j => Appended[i] # Appended[j]

\* C32: every item the expansion appended satisfies the request's filters:
\* its trust score is at least filters.trust_min and, when filters.types is
\* set, its type is one of filters.types.
ExpansionRespectsFilters ==
    last.op = "graph_recall" =>
        \A id \in Range(Appended) :
            /\ trust_score(records[id].trust_level) >= last.payload.trust_min
            /\ last.payload.types # NoTypes => records[id].type \in last.payload.types

\* what the append loop does keep: every appended item is one that inspect
\* returns to the caller under the request's scope
ExpansionRespectsInspect ==
    last.op = "graph_recall" =>
        \A id \in Range(Appended) :
            RepositoryInspect(last.payload.tenant_id, last.payload.agent_id,
                              last.payload.scope, id) = id

\* expansion_budget = min(max_expansion, floor(max_items / 2))
ExpansionBudget(payload) == Min(max_expansion, payload.max_items \div 2)

\* the base recall was made with max_items reduced by the budget when the
\* budget is positive and max_items > 1, and nothing is appended when
\* max_expansion = 0
BaseLeavesRoom ==
    LET budget == ExpansionBudget(last.payload)
        reduced == IF budget > 0 /\ last.payload.max_items > 1
                   THEN [last.payload EXCEPT !.max_items = @ - budget]
                   ELSE last.payload
    IN /\ last.base = RepositoryRecall(reduced).items
       /\ max_expansion = 0 => Appended = <<>>

\* C33: the augmented recall appends at most expansion_budget =
\* min(max_expansion, floor(max_items / 2)) items to the base result, however
\* many items the base recall returned, and nothing when max_expansion = 0;
\* the base recall is called with max_items reduced by that budget when the
\* budget is positive and max_items > 1.
ExpansionWithinBudget ==
    last.op = "graph_recall" =>
        /\ Len(Appended) <= ExpansionBudget(last.payload)
        /\ BaseLeavesRoom

\* what the code does keep: the base call, no expansion when it is switched
\* off, and a result of at most max_items items
ExpansionWithinMaxItems ==
    last.op = "graph_recall" =>
        /\ Len(last.items) <= last.payload.max_items
        /\ BaseLeavesRoom

\* an edge of the request's tenant leads from one of the ids to id
JoinedTo(ids, id) ==
    \E k \in DOMAIN edges : k[1] = last.payload.tenant_id /\ k[2] \in ids /\ k[3] = id

\* the memory shares a feature term with the query
SharesQueryTerm(id) ==
    \E f \in extract_relation_features(last.payload.query) :
        <<last.payload.tenant_id, f[1], f[2], id>> \in terms

\* C34: the expansion is single-hop: every appended item is a query-seed
\* candidate (it shares a feature term with the query) or is joined by a
\* direct edge to an item of the base result.
ExpansionSingleHop ==
    last.op = "graph_recall" =>
        \A id \in Range(Appended) :
            SharesQueryTerm(id) \/ JoinedTo(Range(last.base), id)

\* what the code does keep: an appended item shares a term with the query or
\* is joined by an edge to a base item or to a query-seed candidate
ExpansionOneHopFromSeeds ==
    last.op = "graph_recall" =>
        \A id \in Range(Appended) :
            \/ SharesQueryTerm(id)
            \/ JoinedTo(Range(last.base) \cup Range(last.query_seed_candidates), id)

\* ------------------------------------------------------------------------
\* Properties of conflict detection in recall
\* ------------------------------------------------------------------------
\* a and b are returned facts whose word sets overlap by half or more and of
\* which exactly one has a negation
InConflict(a, b) ==
    /\ a # b
    /\ a \in Range(last.items) /\ b \in Range(last.items)
    /\ records[a].type = "fact" /\ records[b].type = "fact"
    /\ TokenSet(records[a].text) # {} /\ TokenSet(records[b].text) # {}
    /\ 2 * Cardinality(TokenSet(records[a].text) \cap TokenSet(records[b].text))
          >= Cardinality(TokenSet(records[a].text) \cup TokenSet(records[b].text))
    /\ has_negation(records[a].text) # has_negation(records[b].text)

\* C28: every entry possible_conflict:<a>:<b> of a repository recall response
\* names two distinct returned items, both facts, with word-set Jaccard
\* overlap >= 0.5, exactly one of them with a negation marker; every
\* unordered pair of returned facts meeting these conditions is reported
\* exactly once; the call returns whatever the conflicts are.
ConflictsAreExact ==
    last.op = "recall" =>
        /\ \A i \in DOMAIN last.conflicts :
              InConflict(last.conflicts[i][1], last.conflicts[i][2])
        /\ \A a \in Range(last.items), b \in Range(last.items) :
              InConflict(a, b) =>
                  Cardinality({i \in DOMAIN last.conflicts :
                                  {last.conflicts[i][1], last.conflicts[i][2]} = {a, b}}) = 1

\* a recall returned three items, reported a conflict between two facts,
\* one of them at overlap 0.5 exactly, and no conflict with the third, an
\* event that meets the other conditions
ConflictsAreExactWitness ==
    /\ last.op = "recall"
    /\ Len(last.items) = 3
    /\ Len(last.conflicts) = 1
    /\ \E i \in DOMAIN last.conflicts :
          LET a == last.conflicts[i][1]
              b == last.conflicts[i][2]
          IN 2 * Cardinality(TokenSet(records[a].text) \cap TokenSet(records[b].text))
                = Cardinality(TokenSet(records[a].text) \cup TokenSet(records[b].text))
    /\ \E a \in Range(last.items), b \in Range(last.items) :
          /\ records[a].type = "event" /\ records[b].type = "fact"
          /\ 2 * Cardinality(TokenSet(records[a].text) \cap TokenSet(records[b].text))
                >= Cardinality(TokenSet(records[a].text) \cup TokenSet(records[b].text))
          /\ has_negation(records[a].text) # has_negation(records[b].text)

\* ------------------------------------------------------------------------
\* Properties of train jobs
\* ------------------------------------------------------------------------
\* the job completes in this step
Completes(j) ==
    trainJobs[j].status # "completed" /\ trainJobs'[j].status = "completed"

\* the registry holds the job's candidate as the canary of its kind, at 10
CanaryIsCandidateOf(rows, states, j) ==
    /\ states[rows[j].model_kind].canary_version = rows[j].result
    /\ states[rows[j].model_kind].rollout_percent = 10

\* no version a failed job could have registered is a canary or active
FailedTrainLeavesNoCanary ==
    \A j \in DOMAIN trainJobs : trainJobs[j].status = "failed" =>
        \A kind \in DOMAIN registry_states, a \in 1..MaxAttemptsBound :
            LET version == CandidateVersion(trainJobs[j].model_kind, j, a)
            IN /\ registry_states[kind].canary_version # version
               /\ registry_states[kind].active_version # version

\* C27 (as stated): when a train job for kind K completes, the registry's
\* canary_version for K is the candidate_version of the job's result and
\* rollout_percent for K is 10; a train job that ended failed left no canary.
TrainCompletedHasCanary ==
    /\ []FailedTrainLeavesNoCanary
    /\ [][\A j \in DOMAIN trainJobs :
             Completes(j) => CanaryIsCandidateOf(trainJobs', registry_states', j)]_vars

\* C27 (amended): the execution of a train job for kind K registers its
\* candidate as the canary of K at 10 percent; the job completes with that
\* candidate in its result, and the registry still holds it at 10 percent
\* when the job completes unless another registry call for K was made after
\* the registration; a train job that ended failed left no canary.
TrainRegistersCandidate ==
    /\ []FailedTrainLeavesNoCanary
    /\ [][/\ (trainHeld.version = None /\ trainHeld'.version # None) =>
               /\ registry_states'[trainJobs[trainHeld.job].model_kind].canary_version
                      = trainHeld'.version
               /\ registry_states'[trainJobs[trainHeld.job].model_kind].rollout_percent
                      = 10
          /\ \A j \in DOMAIN trainJobs :
                Completes(j) =>
                    /\ trainJobs'[j].result = trainHeld.version
                    /\ (\A i \in (trainHeld.event + 1)..Len(registry_events) :
                            registry_events[i].model_kind # trainJobs[j].model_kind)
                          => CanaryIsCandidateOf(trainJobs', registry_states', j)]_vars

\* one train job completed and its candidate is the canary of its kind at 10
\* percent, and a train job for an unsupported kind ended failed
TrainRegistersCandidateWitness ==
    /\ \E j \in DOMAIN trainJobs :
          /\ trainJobs[j].status = "completed"
          /\ CanaryIsCandidateOf(trainJobs, registry_states, j)
    /\ \E j \in DOMAIN trainJobs : trainJobs[j].status = "failed"

\* ------------------------------------------------------------------------
\* Properties of purge, forget and inspect
\* ------------------------------------------------------------------------

\* the records purge_expired(t, h) is due to tombstone at the time of the call:
\* of tenant t, not tombstoned, with an expires_at instant <= now - h
PurgeDue(before, tenant_id, grace) ==
    {id \in DOMAIN before : /\ before[id].tenant_id = tenant_id
                            /\ ~before[id].tombstoned
                            /\ before[id].expires_at # NoTime
                            /\ before[id].expires_at <= now - grace}

\* what a purge_expired call did, against the records it found
PurgeIsExact ==
    LET due == PurgeDue(last.before, last.tenant_id, last.grace)
    IN /\ DOMAIN records = DOMAIN last.before
       /\ \A id \in DOMAIN records :
             records[id] = IF id \in due
                           THEN [last.before[id] EXCEPT !.tombstoned = TRUE]
                           ELSE last.before[id]
       /\ last.purged = Cardinality(due)
       /\ PurgeTargets(last.tenant_id, last.grace) = {}

\* C13: purge_expired(t, h) tombstones exactly the records of tenant t that are
\* not tombstoned and whose expires_at is <= now - h, leaves every other
\* record as it was, returns the number of records it tombstoned, and an
\* immediate second call would tombstone nothing and return 0.
PurgeExpiredExact ==
    last.op = "purge_expired" => PurgeIsExact

\* the same for calls that met no expires_at written with a non-UTC offset
PurgeExpiredExactUtcOnly ==
    (/\ last.op = "purge_expired"
     /\ \A id \in DOMAIN last.before : last.before[id].expires_offset = 0)
        => PurgeIsExact

\* the same for the in-memory repository
PurgeExpiredExactInMemory ==
    (last.op = "purge_expired" /\ backend = "inmemory") => PurgeIsExact

\* a purge with a grace period tombstoned one UTC record and left alone a
\* record that expired less than the grace period ago
PurgeExpiredUtcWitness ==
    /\ last.op = "purge_expired"
    /\ backend = "sqlite"
    /\ last.purged >= 1
    /\ \A id \in DOMAIN last.before : last.before[id].expires_offset = 0

\* the ways the target of a forget call can be invisible to its caller
ForgetTargetUnknown == last.memory_id \notin DOMAIN last.before

ForgetTargetOtherTenant ==
    /\ last.memory_id \in DOMAIN last.before
    /\ last.before[last.memory_id].tenant_id # last.tenant_id

ForgetTargetOthersPrivate ==
    /\ last.memory_id \in DOMAIN last.before
    /\ last.before[last.memory_id].scope = "private"
    /\ last.before[last.memory_id].agent_id # last.agent_id

ForgetTargetTombstoned ==
    /\ last.memory_id \in DOMAIN last.before
    /\ last.before[last.memory_id].tombstoned

ForgetTargetExpired ==
    /\ last.memory_id \in DOMAIN last.before
    /\ Expired(last.before[last.memory_id])

ForgetDidNothing == last.deleted = FALSE /\ records = last.before

\* C15: forget(tenant, agent, id) returns deleted=false and changes no record
\* when the target is not visible to the caller: an unknown id, a record of
\* another tenant, another agent's private record, a tombstoned record, or a
\* record whose expires_at has passed.
ForgetInvisibleDoesNothing ==
    (/\ last.op = "forget"
     /\ \/ ForgetTargetUnknown
        \/ ForgetTargetOtherTenant
        \/ ForgetTargetOthersPrivate
        \/ ForgetTargetTombstoned
        \/ ForgetTargetExpired)
        => ForgetDidNothing

\* the same without the expired records
ForgetInvisibleUnexpiredDoesNothing ==
    (/\ last.op = "forget"
     /\ \/ ForgetTargetUnknown
        \/ ForgetTargetOtherTenant
        \/ ForgetTargetOthersPrivate
        \/ ForgetTargetTombstoned)
        => ForgetDidNothing

\* C16: inspect(tenant, agent, scope, id) returns the record if and only if the
\* record exists, belongs to tenant, is not tombstoned, has no expires_at <=
\* now, and its scope is global, or team with a requested scope of team or
\* global, or private with the caller as its author; otherwise it returns
\* not-found.
InspectIffVisible ==
    last.op = "inspect" =>
        LET id == last.memory_id
            visible ==
                /\ id \in DOMAIN records
                /\ records[id].tenant_id = last.tenant_id
                /\ ~records[id].tombstoned
                /\ ~Expired(records[id])
                /\ \/ records[id].scope = "global"
                   \/ records[id].scope = "team" /\ last.scope \in {"team", "global"}
                   \/ records[id].scope = "private" /\ records[id].agent_id = last.agent_id
        IN /\ visible => last.found = id
           /\ ~visible => last.found = NotFound

\* the author of a live team record asked for it with scope=private and got
\* not-found
InspectIffVisibleWitness ==
    /\ last.op = "inspect"
    /\ last.found = NotFound
    /\ last.scope = "private"
    /\ last.memory_id \in DOMAIN records
    /\ records[last.memory_id].scope = "team"
    /\ records[last.memory_id].tenant_id = last.tenant_id
    /\ records[last.memory_id].agent_id = last.agent_id
    /\ ~records[last.memory_id].tombstoned
    /\ ~Expired(records[last.memory_id])

\* an expired record that is not tombstoned was asked for by its author and
\* was not found
InspectExpiredWitness ==
    /\ last.op = "inspect"
    /\ last.found = NotFound
    /\ last.memory_id \in DOMAIN records
    /\ records[last.memory_id].tenant_id = last.tenant_id
    /\ records[last.memory_id].agent_id = last.agent_id
    /\ last.scope = "global"
    /\ ~records[last.memory_id].tombstoned
    /\ Expired(records[last.memory_id])

\* ------------------------------------------------------------------------
\* Properties of concurrent remember calls
\* ------------------------------------------------------------------------

\* the callers whose call carried idempotency key k of tenant t and returned
ReturnedWithKey(tenant_id, key) ==
    {p \in Callers : /\ callers[p].pc = "done"
                     /\ callers[p].payload.tenant_id = tenant_id
                     /\ callers[p].payload.idempotency_key = key}

\* among the returned calls with one key, one wrote and the others replayed it
OneWriterPerKey(tenant_id, key) ==
    LET returned == ReturnedWithKey(tenant_id, key)
        writers == {p \in returned : callers[p].warnings = <<>>}
    IN returned # {} =>
         /\ Cardinality(writers) = 1
         /\ \A w \in writers :
              /\ \A p \in returned \ writers :
                    /\ callers[p].memory_ids = callers[w].memory_ids
                    /\ callers[p].warnings = <<"idempotency_replay">>
              /\ (\A p \in Callers : p \in returned)
                    => Len(records) = Len(callers[w].payload.items)

\* C14: for concurrent remember calls carrying the same (tenant_id,
\* idempotency_key), in every interleaving exactly one call writes records
\* and stores its response; every other call returns that call's memory_ids
\* with the idempotency_replay warning and writes nothing, so that when all
\* calls carried the key the store holds the winner's len(items) records only.
ConcurrentRememberOneWriter ==
    \A k \in {"k1", "k2"} : OneWriterPerKey("t1", k)

\* the same for callers that are threads sharing one repository object
ConcurrentRememberOneWriterThreads ==
    sharing = "threads" => ConcurrentRememberOneWriter

\* two threads called with the same key; one wrote and the other returned the
\* replay
ConcurrentRememberThreadsWitness ==
    /\ sharing = "threads"
    /\ Cardinality(ReturnedWithKey("t1", "k1")) = NumCallers
    /\ \E p \in Callers : callers[p].warnings = <<"idempotency_replay">>
    /\ \E p \in Callers : callers[p].warnings = <<>>

\* ---------------------------------------------------------------------------
\* Properties of close and the worker loop
\* ---------------------------------------------------------------------------
\* the rows that exist stay as they are and the queue keeps its entries
LoopJobsKept ==
    /\ \A j \in DOMAIN loopJobs : j \in DOMAIN loopJobs' /\ loopJobs'[j] = loopJobs[j]
    /\ Len(loopQueue') >= Len(loopQueue)
    /\ Take(loopQueue', Len(loopQueue)) = loopQueue
    /\ loopDead' = loopDead

\* the loop has left run_forever with nothing half done
LoopStoppedClean ==
    loopAt = "exited" =>
        /\ stop_event
        /\ loopJob = 0
        /\ \A j \in DOMAIN loopJobs :
              /\ loopJobs[j].status \in {"queued", "completed", "failed"}
              /\ loopJobs[j].status = "queued" <=> j \in Range(loopQueue)

\* close itself touches no job, and from the signal on a loop that is between
\* two jobs starts none: it only leaves, and no row or queue entry changes
LoopStopsStarting ==
    /\ (~stop_event /\ stop_event') =>
          (loopJobs' = loopJobs /\ loopQueue' = loopQueue /\ loopAt' = loopAt)
    /\ (stop_event' /\ loopAt \in {"test", "exited"}) =>
          (loopAt' \in {"test", "exited"} /\ LoopJobsKept)
    /\ stop_event => stop_event'

\* C35: after close() set the stop signal the worker loop stops after its
\* current job: the job it is executing ends completed, re-queued or failed
\* (none is left running once the loop has stopped), an iteration that begins
\* after the signal starts no job, the jobs still queued stay queued and
\* unchanged, and the loop does stop.
CloseStopsAfterCurrentJob ==
    /\ []LoopStoppedClean
    /\ [][LoopStopsStarting]_vars
    /\ (stop_event ~> loopAt = "exited")

\* the loop has stopped after a job that ended, with another job still queued
\* as it was submitted
CloseStopsAfterCurrentJobWitness ==
    /\ loopAt = "exited"
    /\ \E j \in DOMAIN loopJobs : loopJobs[j].status \in {"completed", "failed"}
    /\ \E j \in DOMAIN loopJobs :
          /\ loopJobs[j] = NewJob("t1", default_max_attempts, j)
          /\ j \in Range(loopQueue)

\* ---------------------------------------------------------------------------
\* Properties of estimate_tokens
\* ---------------------------------------------------------------------------
\* round(word_count * 1.3) of Python: to the nearest integer, a half to the
\* even neighbour
RoundedTokens(word_count) ==
    LET tenths == word_count * 13
        low == tenths \div 10
        rest == tenths % 10
    IN IF rest < 5 THEN low
       ELSE IF rest > 5 THEN low + 1
       ELSE IF low % 2 = 0 THEN low ELSE low + 1

\* the estimates are integers >= 1 and do not decrease with the word count
EstimatesMonotone ==
    estimates # NoEstimates =>
        /\ \A i \in 1..2 : estimates[i] \in Nat /\ estimates[i] >= 1
        /\ word_counts[1] <= word_counts[2] => estimates[1] <= estimates[2]

\* the estimates are max(1, floor(word_count * 1.3))
EstimatesTruncate ==
    estimates # NoEstimates =>
        \A i \in 1..2 : estimates[i] = Max(1, (word_counts[i] * 13) \div 10)

\* C36: estimate_tokens(text) equals max(1, round(word_count * 1.3)), where
\* word_count is the number of \w+ matches in the text; the result is an
\* integer >= 1 and does not decrease when word_count grows.
EstimateRounds ==
    /\ EstimatesMonotone
    /\ estimates # NoEstimates =>
          \A i \in 1..2 : estimates[i] = Max(1, RoundedTokens(word_counts[i]))

\* ---------------------------------------------------------------------------
\* Properties of two registry instances over one durable store
\* ---------------------------------------------------------------------------
\* the columns of a state row that say which version serves whom
Serving(state) ==
    <<state.active_version, state.canary_version, state.rollout_percent,
      state.tenant_allowlist>>

\* after a call that wrote, the row is the calling instance's own state
PersistedIsCallersState ==
    (sharedCall.op \in {"register_canary", "promote_canary", "rollback_canary",
                        "record_signal"} /\ sharedCall.error = None) =>
        persisted_states[sharedCall.model_kind] =
            instance_states[sharedCall.instance][sharedCall.model_kind]

\* record_signal through either instance leaves the serving columns of the
\* persisted row as they were
RecordSignalKeepsPersisted ==
    sharedCall'.op = "record_signal" =>
        \A kind \in ModelKinds :
            Serving(persisted_states'[kind]) = Serving(persisted_states[kind])

\* select_version through either instance answers what the persisted row says
SelectAgreesWithPersisted ==
    sharedCall.op = "select_version" =>
        sharedCall.result = select_version(persisted_states[sharedCall.model_kind],
                                           sharedCall.model_kind, sharedCall.tenant_id)

\* C37: with two ModelRegistry instances on one durable store the persisted
\* state row always reflects the most recent successful register_canary,
\* promote_canary or rollback_canary of either instance: a record_signal
\* through the other instance never rewrites the persisted active_version,
\* canary_version, rollout_percent or allowlist to older values, and
\* select_version on either instance agrees with the persisted state.
SharedStoreStaysCurrent ==
    /\ [][RecordSignalKeepsPersisted]_vars
    /\ []SelectAgreesWithPersisted

\* ---------------------------------------------------------------------------
\* Invariants of the registry's states
\* ---------------------------------------------------------------------------
\* the active_version a kind starts with
BaselineVersion(kind) ==
    IF kind = "reranker" THEN "reranker-baseline-v1" ELSE "salience-baseline-v1"

\* a register_canary of the kind was followed by a promote_canary of the kind
RegisteredThenPromoted(kind) ==
    \E i, j \in DOMAIN registry_events :
        /\ i < j
        /\ registry_events[i] = RegistryEvent(kind, "register_canary")
        /\ registry_events[j] = RegistryEvent(kind, "promote_canary")

\* without a canary there is no rollout and no allowlist; the active version
\* is the baseline or a registered canary that was promoted
RegistryStateShape ==
    \A kind \in DOMAIN registry_states :
        LET state == registry_states[kind]
        IN /\ state.canary_version = None =>
                 (state.rollout_percent = 0 /\ state.tenant_allowlist = {})
           /\ state.canary_version # None =>
                 \E i \in DOMAIN registry_events :
                     registry_events[i] = RegistryEvent(kind, "register_canary")
           /\ state.active_version # None
           /\ \/ state.active_version = BaselineVersion(kind)
              \/ /\ state.active_version \in CanaryVersions
                 /\ RegisteredThenPromoted(kind)

\* the active version changes in a promote_canary of the kind that returned,
\* to the canary the kind had, and in no other step
ActiveChangesByPromote ==
    \A kind \in DOMAIN registry_states :
        registry_states'[kind].active_version # registry_states[kind].active_version =>
            /\ selected'.op = "promote_canary"
            /\ selected'.model_kind = kind
            /\ selected'.error = None
            /\ registry_states[kind].canary_version # None
            /\ registry_states'[kind].active_version = registry_states[kind].canary_version

\* C38: in every reachable state of the model registry, for each model kind:
\* if canary_version is none then rollout_percent = 0 and the allowlist is
\* empty; active_version is never none and is the initial "<kind>-baseline-v1"
\* or a version that was registered as canary and promoted; and
\* active_version changes only through promote_canary.
RegistryStateInvariants ==
    /\ []RegistryStateShape
    /\ [][ActiveChangesByPromote]_vars

\* a promoted canary is active, the next canary is registered beside it, and
\* the other kind has been left with its baseline and no canary
RegistryStateInvariantsWitness ==
    \E kind \in ModelKinds :
        /\ registry_states[kind].active_version = CanaryVersion
        /\ registry_states[kind].canary_version = "v3"
        /\ \A other \in ModelKinds \ {kind} :
              /\ registry_states[other].active_version = BaselineVersion(other)
              /\ registry_states[other].canary_version = None

\* ---------------------------------------------------------------------------
\* Properties of the graph store
\* ---------------------------------------------------------------------------
Relations == {"keyword", "phrase", "temporal", "reference"}

\* the number of (relation, term) features the texts of a and b share
SharedFeatures(a, b, relation) ==
    Cardinality({f \in extract_relation_features(projMemories[a].text)
                        \cap extract_relation_features(projMemories[b].text) :
                    f[1] = relation})

\* the term index holds the features of the projected memories, each under
\* the memory's tenant
TermsOfProjected ==
    terms = UNION {{<<projMemories[id].tenant_id, f[1], f[2], id>> :
                       f \in extract_relation_features(projMemories[id].text)} :
                   id \in projected}

\* the edges join projected memories of one tenant, and the weight of each is
\* the number of features the two texts share
EdgesCountShared ==
    /\ \A k \in DOMAIN edges :
          /\ k[2] \in projected /\ k[3] \in projected /\ k[2] # k[3]
          /\ projMemories[k[2]].tenant_id = k[1]
          /\ projMemories[k[3]].tenant_id = k[1]
    /\ \A a, b \in projected, relation \in Relations, t \in ProjTenants :
          LET k == <<t, a, b, relation>>
              joined == /\ a # b
                        /\ projMemories[a].tenant_id = t
                        /\ projMemories[b].tenant_id = t
                        /\ SharedFeatures(a, b, relation) > 0
          IN /\ k \in DOMAIN edges <=> joined
             /\ joined => edges[k].weight = SharedFeatures(a, b, relation)

\* C39: when each memory of a tenant is projected exactly once, the stored
\* weight of edge (a, b, relation) is the number of (relation, term) features
\* the texts of a and b share, an edge exists exactly when that number is
\* positive, and the term index and the edge weights do not depend on the
\* order of the projections: they are the same function of the projected
\* memories after every order.
ProjectionCountsSharedFeatures ==
    TermsOfProjected /\ EdgesCountShared

\* the memories were all projected, memory 1 last, and two of them share
\* three keywords
ProjectionCountsSharedFeaturesWitness ==
    /\ projected = ProjIds
    /\ projCall.op = "project_memory"
    /\ projCall.memory_id = 1
    /\ \E k \in DOMAIN edges : k[4] = "keyword" /\ edges[k].weight = 3
    /\ \E k \in DOMAIN edges : k[4] = "keyword" /\ edges[k].weight = 1

\* the term entries and the edges of the tenants other than tenant_id
OfOtherTenants(tenant_id, term_set, edge_map) ==
    <<{t \in term_set : t[1] # tenant_id},
      [k \in {e \in DOMAIN edge_map : e[1] # tenant_id} |-> edge_map[k]]>>

\* a projection leaves the entries of the other tenants as they were
ProjectionStaysInTenant ==
    projected' # projected =>
        OfOtherTenants(projCall'.tenant_id, terms', edges')
            = OfOtherTenants(projCall'.tenant_id, terms, edges)

\* related and query_candidates answer with ids projected under the tenant
\* asked for, none of them excluded, at most limit of them
LookupsStayInTenant ==
    projCall.op \in {"related", "query_candidates"} =>
        /\ \A i \in DOMAIN projCall.result :
              /\ projCall.result[i] \in projected
              /\ projMemories[projCall.result[i]].tenant_id = projCall.tenant_id
              /\ projCall.result[i] \notin projCall.exclude_ids
        /\ Len(projCall.result) <= projCall.limit

\* C40: graph terms and edges are partitioned by tenant: project_memory under
\* tenant T never creates or changes a term entry or an edge of another
\* tenant, and related and query_candidates called for T return only memory
\* ids projected under T, never an id of exclude_ids, and at most limit ids.
GraphPartitionedByTenant ==
    /\ [][ProjectionStaysInTenant]_vars
    /\ []LookupsStayInTenant

\* memories of both tenants share the query's term; the lookup for t1 with
\* memory 3 excluded answered with the one id left, and the other tenant has
\* a memory with that term
GraphPartitionedByTenantWitness ==
    /\ projCall.op = "query_candidates"
    /\ projCall.tenant_id = "t1"
    /\ projCall.exclude_ids = {3}
    /\ projCall.result = <<1>>
    /\ projected = ProjIds
    /\ projMemories[3].tenant_id = "t1"
    /\ projMemories[2].tenant_id = "t2"

====
